---------------------------- MODULE Spec2Model ----------------------------
(***************************************************************************)
(* A model of the atma parser library: the Success/Failure result algebra  *)
(* (parse/result.rs), the primitive parsers (parse/primitive.rs), the      *)
(* parser combinators (parse_old/combinator.rs) and the colour and cell    *)
(* grammars built from them (parse/color.rs, parse/selection.rs), and of   *)
(* the Undo and Redo commands of command/dispatch.rs.                      *)
(*                                                                         *)
(* A text is a sequence of one-character strings.  A parser is a value: a  *)
(* tuple whose head names the parser function and whose tail holds its     *)
(* arguments; Run(p, text) applies it.  Every parser function of the       *)
(* source is an operator of the same name taking the text as its last      *)
(* argument.  An Option is a sequence: None is <<>>, Some(x) is <<x>>.     *)
(*                                                                         *)
(* A parse ends in one of four ways: "ok" (a Success), "err" (a Failure),  *)
(* "panic" (a slice index out of range) or "diverge" (a loop that never    *)
(* ends).  The Failure field the older files call `token` is the field     *)
(* result.rs calls `context`; the model calls it context throughout.       *)
(***************************************************************************)
EXTENDS Integers, Sequences, FiniteSets, TLC

VARIABLES
    text,     \* the input the parser is invoked on
    parser,   \* the parser value that was applied
    result,   \* the outcome of that application
    pc,       \* intersperse loop machine: position in the function body
    suc,      \* intersperse loop machine: the local `suc`
    count,    \* intersperse loop machine: the local `count`
    iters,    \* intersperse loop machine: iterations of the second loop
    palette,  \* dispatch: the palette that is loaded, if any
    command,  \* dispatch: opts.command of the last call
    performed, \* dispatch: what pal.undo / pal.redo reported in that call
    written   \* dispatch: the calls of pal.write_to_load_path so far

\* The variables of command dispatch, which no parser touches.
dispatch_vars == <<palette, command, performed, written>>

vars == <<text, parser, result, pc, suc, count, iters, dispatch_vars>>

-----------------------------------------------------------------------------
(* Characters                                                              *)

None == <<>>

Some(x) == <<x>>

UpperCase == <<"A","B","C","D","E","F","G","H","I","J","K","L","M",
               "N","O","P","Q","R","S","T","U","V","W","X","Y","Z">>

LowerCase == <<"a","b","c","d","e","f","g","h","i","j","k","l","m",
               "n","o","p","q","r","s","t","u","v","w","x","y","z">>

DecimalDigits == <<"0","1","2","3","4","5","6","7","8","9">>

Range(s) == {s[i] : i \in DOMAIN s}

IndexOf(s, c) == CHOOSE i \in DOMAIN s : s[i] = c

\* char::to_ascii_lowercase, as used by char::eq_ignore_ascii_case.
to_ascii_lowercase(c) ==
    IF c \in Range(UpperCase) THEN LowerCase[IndexOf(UpperCase, c)] ELSE c

eq_ignore_ascii_case(a, b) == to_ascii_lowercase(a) = to_ascii_lowercase(b)

\* char::to_digit(radix): Some(value) for 0-9, a-z, A-Z below the radix.
to_digit(c, radix) ==
    LET l == to_ascii_lowercase(c)
        v == IF l \in Range(DecimalDigits) THEN IndexOf(DecimalDigits, l) - 1
             ELSE IF l \in Range(LowerCase) THEN IndexOf(LowerCase, l) + 9
             ELSE radix
    IN  IF v < radix THEN Some(v) ELSE None

is_digit(c, radix) == to_digit(c, radix) # None

\* char::is_whitespace on the characters the model uses.
is_whitespace(c) == c \in {" ", "\t", "\n"}

\* &text[..n] and &text[n..]
Take(t, n) == SubSeq(t, 1, n)

Drop(t, n) == SubSeq(t, n + 1, Len(t))

starts_with(t, s) == Len(s) <= Len(t) /\ Take(t, Len(s)) = s

RECURSIVE trim_start(_)
trim_start(t) ==
    IF t # <<>> /\ is_whitespace(Head(t)) THEN trim_start(Tail(t)) ELSE t

RECURSIVE trim_end(_)
trim_end(t) ==
    IF t # <<>> /\ is_whitespace(t[Len(t)])
    THEN trim_end(Take(t, Len(t) - 1)) ELSE t

\* str::trim
trim(t) == trim_end(trim_start(t))

-----------------------------------------------------------------------------
(* parse/result.rs: Success, Failure, FailureOwned and the result          *)
(* transforms                                                              *)

Success(value, token, rest) ==
    [kind |-> "ok", value |-> value, token |-> token, rest |-> rest]

Failure(context, expected, source, rest) ==
    [kind |-> "err", context |-> context, expected |-> expected,
     source |-> source, rest |-> rest]

\* A slice index past the end of the text: the program panics.
Panic == [kind |-> "panic"]

\* A loop whose every iteration leaves its state unchanged: it never ends.
Diverge == [kind |-> "diverge"]

IsOk(r) == r.kind = "ok"

IsErr(r) == r.kind = "err"

Aborted(r) == r.kind \in {"panic", "diverge"}

FailureOwned(context, expected, source) ==
    [error |-> "FailureOwned", context |-> context, expected |-> expected,
     source |-> source]

Failure_to_owned(f) == FailureOwned(f.context, f.expected, f.source)

\* Failure::rest_continuing: &self.rest[self.context.len()..]
Failure_rest_continuing(f) ==
    IF Len(f.context) <= Len(f.rest)
    THEN Some(Drop(f.rest, Len(f.context))) ELSE None

Success_map_value(s, value) == Success(value, s.token, s.rest)

\* Success::join_with; join is join_with with the unit value.
Success_join_with(self, other, t, value) ==
    IF Len(self.token) + Len(other.token) <= Len(t)
    THEN Success(value, Take(t, Len(self.token) + Len(other.token)),
                 other.rest)
    ELSE Panic

Success_join(self, other, t) == Success_join_with(self, other, t, <<>>)

Success_join_failure(self, other, t) ==
    IF Len(self.token) + Len(other.context) <= Len(t)
    THEN Failure(Take(t, Len(self.token) + Len(other.context)),
                 other.expected, other.source, t)
    ELSE Panic

\* source_for without the frame: expected is replaced, the source is left
\* as it was.
source_for_replacing(r, expected) ==
    IF IsErr(r)
    THEN Failure(r.context, expected, r.source, r.rest)
    ELSE r

source_for(r, expected) ==
    IF IsErr(r)
    THEN Failure(r.context, expected, Some(Failure_to_owned(r)), r.rest)
    ELSE r

with_join_context(r, success, t) ==
    IF IsErr(r) THEN Success_join_failure(success, r, t) ELSE r

with_new_context(r, context, t) ==
    IF IsErr(r) THEN Failure(context, r.expected, r.source, t) ELSE r

map_value(r, value) == IF IsOk(r) THEN Success_map_value(r, value) ELSE r

tokenize_value(r) == IF IsOk(r) THEN Success_map_value(r, r.token) ELSE r

discard_value(r) == map_value(r, <<>>)

expect_end_of_text(r) ==
    IF IsOk(r) /\ r.rest # <<>>
    THEN Failure(r.token, "end-of-text", None, r.rest)
    ELSE r

expect_failure(r) ==
    CASE IsOk(r)  -> Failure(r.token, "parse failure", None, r.rest)
      [] IsErr(r) -> Success(r.context, r.context, r.rest)
      [] OTHER    -> r

\* The result extension the older files call: a success is joined behind
\* the previous success, a failure has its context extended over it.
with_join_previous(r, success, t) ==
    CASE IsOk(r)  -> Success_join_with(success, r, t, r.value)
      [] IsErr(r) -> Success_join_failure(success, r, t)
      [] OTHER    -> r

-----------------------------------------------------------------------------
(* Parsers are applied through Run, defined after the parser functions.    *)

RECURSIVE Run(_, _)

\* The parser the combinators take for `no separator`: it succeeds on every
\* text with an empty token.
null(t) == Success(<<>>, <<>>, t)

\* Success::take_value splits a success into its value and a success of
\* the unit value; the model reads the value off the record instead.
take_value(s) == Success_map_value(s, <<>>)

-----------------------------------------------------------------------------
(* parse/primitive.rs: character and string parsers                        *)

\* The predicates the source passes to char_matching, by name.
call_pred(f, c) ==
    CASE f[1] = "is_whitespace"          -> is_whitespace(c)
      [] f[1] = "is_digit"               -> is_digit(c, f[2])
      [] f[1] = "is_digit_or_underscore" -> is_digit(c, f[2]) \/ c = "_"
      [] f[1] = "any"                    -> TRUE
      [] f[1] = "valid_name_char"        ->
            c \notin {"*", ",", ".", ":", "-"} /\ ~is_whitespace(c)

char(c, t) ==
    IF t # <<>> /\ Head(t) = c
    THEN Success(c, Take(t, 1), Drop(t, 1))
    ELSE Failure(<<>>, <<c>>, None, t)

char_in(opts, t) ==
    LET hits == {i \in DOMAIN opts : IsOk(char(opts[i], t))}
    IN  IF hits # {}
        THEN char(opts[CHOOSE i \in hits : \A j \in hits : i <= j], t)
        ELSE Failure(<<>>, <<"one of", opts>>, None, t)

char_matching(f, t) ==
    IF t # <<>> /\ call_pred(f, Head(t))
    THEN Success(Head(t), Take(t, 1), Drop(t, 1))
    ELSE Failure(<<>>, "char satisfying predicate", None, t)

char_whitespace(t) ==
    source_for(char_matching(<<"is_whitespace">>, t), "whitespace char")

literal(expect, t) ==
    IF starts_with(t, expect)
    THEN Success(Take(t, Len(expect)), Take(t, Len(expect)),
                 Drop(t, Len(expect)))
    ELSE Failure(<<>>, expect, None, t)

\* The loop of literal_ignore_ascii_case, idx characters matched so far.
RECURSIVE literal_ignore_ascii_case_loop(_, _, _)
literal_ignore_ascii_case_loop(expect, t, idx) ==
    IF idx >= Len(expect)
    THEN Success(Take(t, idx), Take(t, idx), Drop(t, idx))
    ELSE IF idx < Len(t) /\ eq_ignore_ascii_case(expect[idx + 1], t[idx + 1])
    THEN literal_ignore_ascii_case_loop(expect, t, idx + 1)
    ELSE Failure(Take(t, idx), <<"ignore case literal", expect>>, None, t)

literal_ignore_ascii_case(expect, t) ==
    literal_ignore_ascii_case_loop(expect, t, 0)

\* escaped_string, the loop over the brackets: every opening bracket that
\* matches at suc.rest is joined in front of suc, whose rest the join
\* keeps, and selects its closing bracket; the loop has no break.  `state`
\* holds the locals suc and closing.
RECURSIVE escaped_string_open(_, _, _, _)
escaped_string_open(brackets, t, idx, state) ==
    IF idx > Len(brackets) \/ ~IsOk(state.suc) THEN state
    ELSE IF IsOk(literal(brackets[idx][1], state.suc.rest))
    THEN escaped_string_open(brackets, t, idx + 1,
            [suc |-> Success_join(
                        take_value(literal(brackets[idx][1],
                                           state.suc.rest)),
                        state.suc, t),
             closing |-> Some(brackets[idx][2])])
    ELSE escaped_string_open(brackets, t, idx + 1, state)

\* escaped_string, the loop over the escapes within one pass of `loop`:
\* a matching escape is joined in front of suc and its replacement pushed;
\* then one character, parsed from `text`, is joined behind suc and the
\* token of suc pushed.  `state` holds the locals suc and string_value.
RECURSIVE escaped_string_escapes(_, _, _, _)
RECURSIVE escaped_string_char(_, _, _, _, _)
escaped_string_escapes(escapes, t, idx, state) ==
    IF idx > Len(escapes) THEN state
    ELSE LET matched == IsOk(literal(escapes[idx][1], state.suc.rest))
             esc == IF matched
                    THEN Success_join(literal(escapes[idx][1],
                                              state.suc.rest),
                                      state.suc, t)
                    ELSE state.suc
             pushed == IF matched THEN state.value \o escapes[idx][2]
                       ELSE state.value
         IN  IF ~IsOk(esc) THEN [suc |-> esc, value |-> pushed]
             ELSE escaped_string_char(escapes, t, idx, esc, pushed)

\* The last two statements of the loop over the escapes.
escaped_string_char(escapes, t, idx, esc, pushed) ==
    LET next == discard_value(
                    with_join_previous(char_matching(<<"any">>, t), esc, t))
    IN  IF ~IsOk(next) THEN [suc |-> next, value |-> pushed]
        ELSE escaped_string_escapes(escapes, t, idx + 1,
                [suc |-> next, value |-> pushed \o next.token])

\* escaped_string, `loop`: the closing bracket is looked for at the start
\* of `text`; a pass that changes neither suc nor string_value is followed
\* by the same pass for ever.
RECURSIVE escaped_string_loop(_, _, _, _)
escaped_string_loop(closing, escapes, t, state) ==
    IF IsOk(literal(closing, t))
    THEN map_value(Success_join(literal(closing, t), state.suc, t),
                   state.value)
    ELSE LET next == escaped_string_escapes(escapes, t, 1, state)
         IN  CASE ~IsOk(next.suc) -> next.suc
               [] next = state    -> Diverge
               [] OTHER -> escaped_string_loop(closing, escapes, t, next)

escaped_string(brackets, escapes, t) ==
    LET opened == escaped_string_open(brackets, t, 1,
                        [suc |-> Success(<<>>, <<>>, t), closing |-> None])
    IN  CASE ~IsOk(opened.suc) -> opened.suc
          [] opened.closing = None ->
                Failure(<<>>, "escaped string openning", None, t)
          [] OTHER ->
                escaped_string_loop(opened.closing[1], escapes, t,
                                    [suc |-> opened.suc, value |-> <<>>])

-----------------------------------------------------------------------------
(* parse_old/combinator.rs                                                 *)

tokenize(p, t) == tokenize_value(Run(p, t))

maybe(p, t) ==
    LET r == Run(p, t)
    IN  CASE IsOk(r)  -> Success_map_value(r, Some(r.value))
          [] IsErr(r) -> Success(None, <<>>, t)
          [] OTHER    -> r

\* atomic without the test of the token: every failure becomes None.
atomic_swallowing(p, t) ==
    LET r == Run(p, t)
    IN  CASE IsOk(r)  -> Success_map_value(r, Some(r.value))
          [] IsErr(r) -> Success(None, <<>>, t)
          [] OTHER    -> r

atomic(p, t) ==
    LET r == Run(p, t)
    IN  CASE IsOk(r)                        -> Success_map_value(r, Some(r.value))
          [] IsErr(r) /\ r.context = <<>>  -> Success(None, <<>>, t)
          [] OTHER                          -> r

atomic_ignore_whitespace(p, t) ==
    LET r == Run(p, t)
    IN  CASE IsOk(r) -> Success_map_value(r, Some(r.value))
          [] IsErr(r) /\ trim(r.context) = <<>> ->
                IF Len(r.context) <= Len(r.rest)
                THEN Success(None, r.context, Drop(r.rest, Len(r.context)))
                ELSE Panic
          [] OTHER -> r

prefix(p, prefix_parser, t) ==
    LET s == Run(prefix_parser, t)
    IN  IF IsOk(s) THEN with_join_previous(Run(p, s.rest), s, t) ELSE s

pair(fst_parser, snd_parser, t) ==
    LET fst == Run(fst_parser, t)
    IN  IF ~IsOk(fst) THEN fst
        ELSE LET snd == with_join_previous(
                            Run(snd_parser, fst.rest), take_value(fst), t)
             IN  IF IsOk(snd) THEN map_value(snd, <<fst.value, snd.value>>)
                 ELSE snd

postfix(p, postfix_parser, t) ==
    LET s == Run(p, t)
    IN  IF ~IsOk(s) THEN s
        ELSE map_value(
                with_join_previous(Run(postfix_parser, s.rest),
                                   take_value(s), t),
                s.value)

bracket(p, prefix_parser, postfix_parser, t) ==
    LET s == Run(prefix_parser, t)
    IN  IF ~IsOk(s) THEN s
        ELSE LET v == with_join_previous(Run(p, s.rest), s, t)
             IN  IF ~IsOk(v) THEN v
                 ELSE map_value(
                        with_join_previous(Run(postfix_parser, v.rest),
                                           take_value(v), t),
                        v.value)

circumfix(p, circumfix_parser, t) ==
    LET s == Run(circumfix_parser, t)
    IN  IF ~IsOk(s) THEN s
        ELSE LET v == with_join_previous(Run(p, s.rest), s, t)
             IN  IF ~IsOk(v) THEN v
                 ELSE map_value(
                        with_join_previous(Run(circumfix_parser, v.rest),
                                           take_value(v), t),
                        v.value)

\* while high.map_or(true, |h| count < h)
HighAllows(high, n) == IF high = None THEN TRUE ELSE n < high[1]

\* One attempt of a further repetition: prefix(parser, inner_parser).
\* With no upper limit, a repetition that succeeds without consuming any
\* text leaves `suc.rest` as it was, so every later iteration of the loop
\* repeats it: the loop never ends.
NeverEnds(high, next) == high = None /\ IsOk(next) /\ next.token = <<>>

\* intersperse, first loop: `while count < low`; `s.value` holds count.
RECURSIVE intersperse_low(_, _, _, _, _)
intersperse_low(low, p, sep, t, s) ==
    IF s.value < low
    THEN LET next == with_join_previous(
                        discard_value(prefix(p, sep, s.rest)), s, t)
         IN  IF IsOk(next)
             THEN intersperse_low(low, p, sep, t,
                                  Success_map_value(next, s.value + 1))
             ELSE next
    ELSE s

\* intersperse's second loop with the separator parsed on its own, so that
\* a separator without an item behind it is consumed.
RECURSIVE intersperse_high_trailing(_, _, _, _, _)
intersperse_high_trailing(high, p, sep, t, s) ==
    IF HighAllows(high, s.value)
    THEN LET next == discard_value(prefix(p, sep, s.rest))
         IN  CASE NeverEnds(high, next) -> Diverge
               [] IsOk(next) ->
                    LET j == Success_join_with(s, next, t, s.value + 1)
                    IN  IF IsOk(j)
                        THEN intersperse_high_trailing(high, p, sep, t, j)
                        ELSE j
               [] IsErr(next) ->
                    LET only == Run(sep, s.rest)
                    IN  IF IsOk(only)
                        THEN Success_join_with(s, only, t, s.value)
                        ELSE s
               [] OTHER -> next
    ELSE s

\* intersperse, second loop: `while high.map_or(true, |h| count < h)`.
RECURSIVE intersperse_high(_, _, _, _, _)
intersperse_high(high, p, sep, t, s) ==
    IF HighAllows(high, s.value)
    THEN LET next == discard_value(prefix(p, sep, s.rest))
         IN  CASE NeverEnds(high, next) -> Diverge
               [] IsOk(next) ->
                    LET j == Success_join_with(s, next, t, s.value + 1)
                    IN  IF IsOk(j) THEN intersperse_high(high, p, sep, t, j)
                        ELSE j
               [] IsErr(next) -> s
               [] OTHER -> next
    ELSE s

intersperse(low, high, p, sep, t) ==
    LET first == Run(p, t)
    IN  CASE IsOk(first) ->
                LET s == intersperse_low(low, p, sep, t,
                                         Success_map_value(first, 1))
                IN  IF IsOk(s) THEN intersperse_high(high, p, sep, t, s)
                    ELSE s
          [] IsErr(first) /\ low = 0 -> Success(0, <<>>, t)
          [] OTHER -> first

\* intersperse_collect, first loop; `s.value` holds the Vec, whose length
\* is count.
RECURSIVE intersperse_collect_low(_, _, _, _, _)
intersperse_collect_low(low, p, sep, t, s) ==
    IF Len(s.value) < low
    THEN LET next == prefix(p, sep, s.rest)
         IN  IF IsOk(next)
             THEN LET j == Success_join_with(s, next, t,
                                             Append(s.value, next.value))
                  IN  IF IsOk(j)
                      THEN intersperse_collect_low(low, p, sep, t, j)
                      ELSE j
             ELSE next
    ELSE s

\* intersperse_collect's second loop with each new value put in front of
\* the collected ones.
RECURSIVE intersperse_collect_high_reversed(_, _, _, _, _)
intersperse_collect_high_reversed(high, p, sep, t, s) ==
    IF HighAllows(high, Len(s.value))
    THEN LET next == prefix(p, sep, s.rest)
         IN  CASE NeverEnds(high, next) -> Diverge
               [] IsOk(next) ->
                    LET j == Success_join_with(s, next, t,
                                               <<next.value>> \o s.value)
                    IN  IF IsOk(j)
                        THEN intersperse_collect_high_reversed(high, p, sep,
                                                               t, j)
                        ELSE j
               [] IsErr(next) -> s
               [] OTHER -> next
    ELSE s

\* intersperse_collect, second loop.
RECURSIVE intersperse_collect_high(_, _, _, _, _)
intersperse_collect_high(high, p, sep, t, s) ==
    IF HighAllows(high, Len(s.value))
    THEN LET next == prefix(p, sep, s.rest)
         IN  CASE NeverEnds(high, next) -> Diverge
               [] IsOk(next) ->
                    LET j == Success_join_with(s, next, t,
                                               Append(s.value, next.value))
                    IN  IF IsOk(j)
                        THEN intersperse_collect_high(high, p, sep, t, j)
                        ELSE j
               [] IsErr(next) -> s
               [] OTHER -> next
    ELSE s

intersperse_collect(low, high, p, sep, t) ==
    LET first == Run(p, t)
    IN  CASE IsOk(first) ->
                LET s == intersperse_collect_low(low, p, sep, t,
                            Success_map_value(first, <<first.value>>))
                IN  IF IsOk(s)
                    THEN intersperse_collect_high(high, p, sep, t, s)
                    ELSE s
          [] IsErr(first) /\ low = 0 -> Success(<<>>, <<>>, t)
          [] OTHER -> first

repeat(low, high, p, t) == intersperse(low, high, p, <<"null">>, t)

repeat_collect(low, high, p, t) ==
    intersperse_collect(low, high, p, <<"null">>, t)

\* intersperse_until, second loop.  The end parser is applied to `text`,
\* the input of the whole call, before the separator and before the
\* repetition; the repetition is parsed by prefix(parser, inner_parser)
\* behind the separator already joined.  `s.value` holds count.
RECURSIVE intersperse_until_high(_, _, _, _, _, _)
intersperse_until_high(high, p, sep, end, t, s) ==
    IF ~HighAllows(high, s.value) \/ IsOk(Run(end, t)) THEN s
    ELSE LET inner == discard_value(Run(sep, s.rest))
         IN  CASE IsErr(inner) -> s
               [] ~IsOk(inner) -> inner
               [] OTHER ->
                    LET s1 == Success_join_with(s, inner, t, s.value)
                    IN  IF ~IsOk(s1) \/ IsOk(Run(end, t)) THEN s1
                        ELSE LET next == discard_value(
                                            prefix(p, sep, s1.rest))
                                 s2 == Success_join_with(s1, next, t,
                                                         s.value + 1)
                             IN  CASE IsErr(next) -> s1
                                   [] ~IsOk(next) -> next
                                   [] NeverEnds(high, inner)
                                        /\ next.token = <<>> -> Diverge
                                   [] ~IsOk(s2) -> s2
                                   [] OTHER ->
                                        intersperse_until_high(
                                            high, p, sep, end, t, s2)

\* intersperse_until, first loop, followed by the second.
RECURSIVE intersperse_until_low(_, _, _, _, _, _, _)
intersperse_until_low(low, high, p, sep, end, t, s) ==
    IF ~(s.value < low)
    THEN intersperse_until_high(high, p, sep, end, t, s)
    ELSE IF IsOk(Run(end, t)) THEN s
    ELSE LET s1 == with_join_previous(
                        discard_value(Run(sep, s.rest)), s, t)
         IN  IF ~IsOk(s1) \/ IsOk(Run(end, t))
             THEN map_value(s1, s.value)
             ELSE LET s2 == with_join_previous(
                                discard_value(Run(p, s1.rest)), s1, t)
                  IN  IF ~IsOk(s2) THEN s2
                      ELSE intersperse_until_low(
                                low, high, p, sep, end, t,
                                Success_map_value(s2, s.value + 1))

intersperse_until(low, high, p, sep, end, t) ==
    LET e == Run(end, t)
        first == Run(p, t)
    IN  CASE IsOk(e)     -> Success_map_value(e, 0)
          [] Aborted(e)  -> e
          [] IsOk(first) ->
                intersperse_until_low(low, high, p, sep, end, t,
                                      Success_map_value(first, 1))
          [] IsErr(first) /\ low = 0 -> Success(0, <<>>, t)
          [] OTHER -> first

\* intersperse_collect_until, second loop: the repetition behind the
\* separator is parsed by `parser` alone.  `s.value` holds the Vec.
RECURSIVE intersperse_collect_until_high(_, _, _, _, _, _)
intersperse_collect_until_high(high, p, sep, end, t, s) ==
    IF ~HighAllows(high, Len(s.value)) \/ IsOk(Run(end, t)) THEN s
    ELSE LET inner == Run(sep, s.rest)
         IN  CASE IsErr(inner) -> s
               [] ~IsOk(inner) -> inner
               [] OTHER ->
                    LET s1 == Success_join_with(s, inner, t, s.value)
                    IN  IF ~IsOk(s1) \/ IsOk(Run(end, t)) THEN s1
                        ELSE LET next == Run(p, s1.rest)
                                 s2 == Success_join_with(
                                            s1, next, t,
                                            Append(s.value, next.value))
                             IN  CASE IsErr(next) -> s1
                                   [] ~IsOk(next) -> next
                                   [] NeverEnds(high, inner)
                                        /\ next.token = <<>> -> Diverge
                                   [] ~IsOk(s2) -> s2
                                   [] OTHER ->
                                        intersperse_collect_until_high(
                                            high, p, sep, end, t, s2)

\* intersperse_collect_until, first loop, followed by the second: a
\* failure of the separator or of the repetition is returned as it is.
RECURSIVE intersperse_collect_until_low(_, _, _, _, _, _, _)
intersperse_collect_until_low(low, high, p, sep, end, t, s) ==
    IF ~(Len(s.value) < low)
    THEN intersperse_collect_until_high(high, p, sep, end, t, s)
    ELSE IF IsOk(Run(end, t)) THEN s
    ELSE LET inner == Run(sep, s.rest)
             s1 == Success_join_with(s, inner, t, s.value)
         IN  CASE ~IsOk(inner) -> inner
               [] ~IsOk(s1) \/ IsOk(Run(end, t)) -> s1
               [] OTHER ->
                    LET next == Run(p, s1.rest)
                        s2 == Success_join_with(
                                    s1, next, t, Append(s.value, next.value))
                    IN  CASE ~IsOk(next) -> next
                          [] ~IsOk(s2) -> s2
                          [] OTHER ->
                                intersperse_collect_until_low(
                                    low, high, p, sep, end, t, s2)

intersperse_collect_until(low, high, p, sep, end, t) ==
    LET e == Run(end, t)
        first == Run(p, t)
    IN  CASE IsOk(e)     -> Success_map_value(e, <<>>)
          [] Aborted(e)  -> e
          [] IsOk(first) ->
                intersperse_collect_until_low(
                    low, high, p, sep, end, t,
                    Success_map_value(first, <<first.value>>))
          [] IsErr(first) /\ low = 0 -> Success(<<>>, <<>>, t)
          [] OTHER -> first

repeat_until(low, high, p, end, t) ==
    intersperse_until(low, high, p, <<"null">>, end, t)

\* any_literal_map(parser, expected, map): `factory` names the parser
\* constructor applied to each pattern, map is a sequence of <<pat, value>>.
any_literal_map(factory, expected, map, t) ==
    LET hits == {i \in DOMAIN map : IsOk(Run(<<factory, map[i][1]>>, t))}
    IN  IF hits # {}
        THEN LET i == CHOOSE i \in hits : \A j \in hits : i <= j
             IN  map_value(Run(<<factory, map[i][1]>>, t), map[i][2])
        ELSE Failure(<<>>, expected, None, t)

\* whitespace (primitive.rs): one or more whitespace characters.
whitespace(t) ==
    source_for(
        tokenize_value(repeat(1, None, <<"char_whitespace">>, t)),
        "whitespace")

-----------------------------------------------------------------------------
(* Unsigned integers wider than the checker's own: a number is the         *)
(* sequence of its 16-bit limbs, least significant first, with no leading  *)
(* zero limb (zero is the empty sequence).                                 *)

LimbBase == 65536

\* n * m + carry, for a limb sequence n and small naturals m >= 1, carry.
RECURSIVE MulAdd(_, _, _)
MulAdd(n, m, carry) ==
    IF n = <<>>
    THEN IF carry = 0 THEN <<>> ELSE <<carry>>
    ELSE LET x == n[1] * m + carry
         IN  <<x % LimbBase>> \o MulAdd(Tail(n), m, x \div LimbBase)

\* The number of 16-bit limbs of the integer types: u16, u32, u64.
Limbs(int_type) ==
    CASE int_type = "u16" -> 1
      [] int_type = "u32" -> 2
      [] int_type = "u64" -> 4

\* u64::checked_mul and u64::checked_add: None on overflow.
checked_mul(res, m) ==
    LET r == MulAdd(res, m, 0)
    IN  IF Len(r) <= Limbs("u64") THEN Some(r) ELSE None

checked_add(res, val) ==
    LET r == MulAdd(res, 1, val)
    IN  IF Len(r) <= Limbs("u64") THEN Some(r) ELSE None

\* u64 -> T by TryFrom: None when the value needs more limbs than T has.
try_into(int_type, res) ==
    IF Len(res) <= Limbs(int_type) THEN Some(res) ELSE None

\* A number below 2^31 as an integer of the checker.
ToInt(n) ==
    CASE Len(n) = 0 -> 0
      [] Len(n) = 1 -> n[1]
      [] Len(n) = 2 -> n[1] + LimbBase * n[2]

-----------------------------------------------------------------------------
(* parse/primitive.rs: integer parsers                                     *)

INT_RADIX_PREFIX_BIN == <<"0", "b">>

INT_RADIX_PREFIX_OCT == <<"0", "o">>

INT_RADIX_PREFIX_HEX == <<"0", "x">>

ParseIntegerOverflow(int_type, int_text, value) ==
    [error |-> "ParseIntegerOverflow", int_type |-> int_type,
     int_text |-> int_text, value |-> value]

prefix_radix_token(t) ==
    IF \/ starts_with(t, INT_RADIX_PREFIX_BIN)
       \/ starts_with(t, INT_RADIX_PREFIX_OCT)
       \/ starts_with(t, INT_RADIX_PREFIX_HEX)
    THEN Success(Take(t, 2), Take(t, 2), Drop(t, 2))
    ELSE Failure(<<>>, "0[box]", None, t)

\* The failure every overflow of uint_digits_value returns.
overflow_failure(int_type, token, value, t) ==
    Failure(token, <<"overflow of", int_type, "value">>,
            Some(ParseIntegerOverflow(int_type, token, value)), t)

\* The accumulation loop of uint_digits_value over the characters of the
\* token from position i on, res being the u64 accumulated so far.
RECURSIVE uint_digits_loop(_, _, _, _, _, _)
uint_digits_loop(int_type, token, radix, t, res, i) ==
    IF i > Len(token)
    THEN IF try_into(int_type, res) # None
         THEN Success(res, token, Drop(t, Len(token)))
         ELSE overflow_failure(int_type, token, res, t)
    ELSE IF token[i] = "_"
    THEN uint_digits_loop(int_type, token, radix, t, res, i + 1)
    ELSE LET val == to_digit(token[i], radix)[1]
             mul == checked_mul(res, radix)
         IN  IF mul = None
             THEN overflow_failure(int_type, token, res, t)
             ELSE IF checked_add(mul[1], val) = None
             THEN overflow_failure(int_type, token,
                                   MulAdd(mul[1], 1, val), t)
             ELSE uint_digits_loop(int_type, token, radix, t,
                                   checked_add(mul[1], val)[1], i + 1)

uint_digits_value(int_type, low, high, radix, t) ==
    LET digit == <<"char_matching", <<"is_digit_or_underscore", radix>>>>
        digits_suc ==
            source_for(repeat(low, high, digit, t),
                       <<int_type, "integer digits with radix", radix>>)
    IN  IF IsOk(digits_suc)
        THEN uint_digits_loop(int_type, digits_suc.token, radix, t, <<>>, 1)
        ELSE digits_suc

uint_value(int_type, radix, t) ==
    uint_digits_value(int_type, 1, None, radix, t)

\* The radix uint reads off the value of maybe(prefix_radix_token).
\* radix_of without the prefixes: every number is read as decimal.
radix_of_decimal(value) == 10

radix_of(value) ==
    CASE value = Some(INT_RADIX_PREFIX_BIN) -> 2
      [] value = Some(INT_RADIX_PREFIX_OCT) -> 8
      [] value = Some(INT_RADIX_PREFIX_HEX) -> 16
      [] value = None                       -> 10

uint(int_type, t) ==
    LET radix_suc == maybe(<<"prefix_radix_token">>, t)
        radix == radix_of(radix_suc.value)
    IN  with_join_previous(
            source_for(uint_value(int_type, radix, radix_suc.rest),
                       <<"parse", int_type, "value">>),
            radix_suc, t)

-----------------------------------------------------------------------------
(* parse/primitive.rs: float parsers                                       *)

\* The longest leading run of decimal digits of a text.
RECURSIVE LeadingDigits(_)
LeadingDigits(t) ==
    IF t # <<>> /\ is_digit(Head(t), 10)
    THEN <<Head(t)>> \o LeadingDigits(Tail(t))
    ELSE <<>>

\* The exponent of a float literal: [eE] Sign? Digit+ up to the end of the
\* text; Some(sign and digits), or None when the text is no exponent.
float_exponent_from_str(t) ==
    IF t = <<>> \/ to_ascii_lowercase(Head(t)) # "e" THEN None
    ELSE LET signed == Len(t) >= 2 /\ t[2] \in {"+", "-"}
             digits == Drop(t, IF signed THEN 2 ELSE 1)
         IN  IF digits # <<>> /\ LeadingDigits(digits) = digits
             THEN Some(Tail(t)) ELSE None

\* T::from_str for a float type: Sign? ( 'inf' | 'infinity' | 'nan' |
\* Number ), Number being Digit+ | Digit+ '.' Digit* | Digit* '.' Digit+
\* with an optional exponent.  Some(the parts of the literal), or None for
\* a ParseFloatError.  from_str_number reads what follows the digits int
\* and the fraction frac, from_str_digits what follows the sign.
from_str_number(sign, int, frac, tail) ==
    CASE int = <<>> /\ frac = <<>> -> None
      [] (int # <<>> \/ frac # <<>>) /\ tail = <<>> ->
            Some([sign |-> sign, class |-> "number", int |-> int,
                  frac |-> frac, exp |-> <<>>])
      [] OTHER ->
            IF float_exponent_from_str(tail) # None
            THEN Some([sign |-> sign, class |-> "number", int |-> int,
                       frac |-> frac,
                       exp |-> float_exponent_from_str(tail)[1]])
            ELSE None

from_str_digits(sign, int, after) ==
    IF after # <<>> /\ Head(after) = "."
    THEN from_str_number(sign, int, LeadingDigits(Tail(after)),
                         Drop(after, 1 + Len(LeadingDigits(Tail(after)))))
    ELSE from_str_number(sign, int, <<>>, after)

from_str_unsigned(sign, body) ==
    CASE [i \in DOMAIN body |-> to_ascii_lowercase(body[i])]
            \in {<<"i","n","f">>, <<"i","n","f","i","n","i","t","y">>} ->
            Some([sign |-> sign, class |-> "inf"])
      [] [i \in DOMAIN body |-> to_ascii_lowercase(body[i])]
            = <<"n","a","n">> ->
            Some([sign |-> sign, class |-> "nan"])
      [] OTHER ->
            from_str_digits(sign, LeadingDigits(body),
                            Drop(body, Len(LeadingDigits(body))))

from_str(t) ==
    IF t # <<>> /\ Head(t) \in {"+", "-"}
    THEN from_str_unsigned(Head(t), Tail(t))
    ELSE from_str_unsigned("+", t)

\* ParseResultExt::convert_value(expected, f) with f = T::from_str: a
\* success whose value f rejects becomes a failure over the success's
\* token.
convert_value(r, expected, t) ==
    IF IsOk(r)
    THEN IF from_str(r.value) # None
         THEN Success_map_value(r, from_str(r.value)[1])
         ELSE Failure(r.token, expected, Some("ParseFloatError"), t)
    ELSE r

float_exp(t) ==
    LET e == source_for(char_in(<<"e", "E">>, t), "float exponent")
    IN  IF ~IsOk(e) THEN e
        ELSE LET s == with_join_previous(
                        maybe(<<"char_in", <<"+", "-">>>>, e.rest), e, t)
             IN  IF ~IsOk(s) THEN s
                 ELSE tokenize_value(
                        with_join_previous(
                            source_for(
                                repeat(1, None,
                                       <<"char_matching", <<"is_digit", 10>>>>,
                                       s.rest),
                                "float exponent digits"),
                            s, t))

\* The last part of float: the digits, then the exponent, behind the sign
\* `sign`.
float_number(float_type, sign, t) ==
    LET digits ==
            with_join_previous(
                tokenize_value(
                    circumfix(<<"maybe", <<"char", ".">>>>,
                              <<"repeat", 0, None,
                                <<"char_matching", <<"is_digit", 10>>>>>>,
                              sign.rest)),
                sign, t)
    IN  IF IsErr(digits) THEN Panic
        ELSE IF ~IsOk(digits) THEN digits
        ELSE convert_value(
                tokenize_value(
                    with_join_previous(
                        atomic_ignore_whitespace(<<"float_exp">>,
                                                 digits.rest),
                        digits, t)),
                <<"parse inf", float_type>>, t)

float(float_type, t) ==
    LET sign == maybe(<<"char_in", <<"+", "-">>>>, t)
        float_inf == literal(<<"i", "n", "f">>, sign.rest)
        float_nan == literal(<<"n", "a", "n">>, sign.rest)
    IN  CASE IsOk(float_inf) ->
                convert_value(
                    tokenize_value(with_join_previous(float_inf, sign, t)),
                    <<"parse inf", float_type>>, t)
          [] IsOk(float_nan) ->
                convert_value(
                    tokenize_value(with_join_previous(float_nan, sign, t)),
                    <<"parse inf", float_type>>, t)
          [] OTHER -> float_number(float_type, sign, t)

-----------------------------------------------------------------------------
(* parse/color.rs                                                          *)

RGB_HEX_PREFIX == "#"

FUNCTIONAL_SEPARATOR == ","

FUNCTIONAL_OPEN_BRACKET == "("

FUNCTIONAL_CLOSE_BRACKET == ")"

\* Bitwise and, or and left shift on naturals.
RECURSIVE BitAnd(_, _)
BitAnd(a, b) ==
    IF a = 0 \/ b = 0 THEN 0
    ELSE (a % 2) * (b % 2) + 2 * BitAnd(a \div 2, b \div 2)

RECURSIVE BitOr(_, _)
BitOr(a, b) ==
    IF a = 0 THEN b
    ELSE IF b = 0 THEN a
    ELSE (IF a % 2 = 1 \/ b % 2 = 1 THEN 1 ELSE 0)
         + 2 * BitOr(a \div 2, b \div 2)

RECURSIVE Shl(_, _)
Shl(a, k) == IF k = 0 THEN a ELSE Shl(2 * a, k - 1)

\* The colour values: Rgb::from(u32), the colour types' From<[f32; n]> and
\* Color::from.
Rgb_from(hex) == [space |-> "Rgb", hex |-> hex]

Components_from(space, components) ==
    [space |-> space, components |-> components]

Color_from(c) == [color |-> c]

rgb_hex_6(t) ==
    LET s == prefix(<<"uint_digits_value", "u32", 6, Some(6), 16>>,
                    <<"char", RGB_HEX_PREFIX>>, t)
    IN  IF IsOk(s) THEN Success_map_value(s, Rgb_from(ToInt(s.value)))
        ELSE s

\* expand_hex_3 with every nibble left where the three-digit number has it.
expand_hex_3_unexpanded(v) ==
    BitOr(BitOr(BitAnd(v, 15), BitAnd(v, 240)), BitAnd(v, 3840))

\* The closure of rgb_hex_3: each of the three nibbles of v twice.
expand_hex_3(v) ==
    BitOr(BitOr(BitOr(BitAnd(v, 15), Shl(BitAnd(v, 15), 4)),
                BitOr(Shl(BitAnd(v, 240), 4), Shl(BitAnd(v, 240), 8))),
          BitOr(Shl(BitAnd(v, 3840), 8), Shl(BitAnd(v, 3840), 12)))

rgb_hex_3(t) ==
    LET s == prefix(<<"uint_digits_value", "u32", 3, Some(3), 16>>,
                    <<"char", RGB_HEX_PREFIX>>, t)
    IN  IF IsOk(s)
        THEN Success_map_value(s, Rgb_from(expand_hex_3(ToInt(s.value))))
        ELSE s

\* rgb_hex_6(text).or_else(|_| rgb_hex_3(text))
rgb_hex(t) ==
    LET six == rgb_hex_6(t)
    IN  IF IsErr(six) THEN rgb_hex_3(t) ELSE six

\* functional without the upper limit: n floats or more.
functional_unbounded(n, t) ==
    bracket(<<"intersperse_collect", n, None, <<"float", "f32">>,
              <<"circumfix", <<"char", FUNCTIONAL_SEPARATOR>>,
                <<"maybe", <<"whitespace">>>>>>>>,
            <<"postfix", <<"char", FUNCTIONAL_OPEN_BRACKET>>,
              <<"maybe", <<"whitespace">>>>>>,
            <<"prefix", <<"char", FUNCTIONAL_CLOSE_BRACKET>>,
              <<"maybe", <<"whitespace">>>>>>,
            t)

functional(n, t) ==
    bracket(<<"intersperse_collect", n, Some(n), <<"float", "f32">>,
              <<"circumfix", <<"char", FUNCTIONAL_SEPARATOR>>,
                <<"maybe", <<"whitespace">>>>>>>>,
            <<"postfix", <<"char", FUNCTIONAL_OPEN_BRACKET>>,
              <<"maybe", <<"whitespace">>>>>>,
            <<"prefix", <<"char", FUNCTIONAL_CLOSE_BRACKET>>,
              <<"maybe", <<"whitespace">>>>>>,
            t)

\* The five functional notations differ in the name, the number of
\* components and the colour type only.
named_functional(space, name, n, t) ==
    LET s == prefix(<<"functional", n>>,
                    <<"literal_ignore_ascii_case", name>>, t)
    IN  IF IsOk(s)
        THEN Success_map_value(s, Components_from(space, Take(s.value, n)))
        ELSE s

rgb_functional(t) == named_functional("Rgb", <<"r", "g", "b">>, 3, t)

hsv_functional(t) == named_functional("Hsv", <<"h", "s", "v">>, 3, t)

hsl_functional(t) == named_functional("Hsl", <<"h", "s", "l">>, 3, t)

cmyk_functional(t) == named_functional("Cmyk", <<"c", "m", "y", "k">>, 4, t)

xyz_functional(t) == named_functional("Xyz", <<"x", "y", "z">>, 3, t)

\* One later alternative of color: its success is returned, its failure
\* replaces the failure kept so far when its context is longer.  `kept` is
\* a Success (returned already) or the Failure `fail`.
color_alternative(kept, alt) ==
    IF ~IsErr(kept) THEN kept
    ELSE CASE IsOk(alt) -> Success_map_value(alt, Color_from(alt.value))
           [] IsErr(alt) ->
                IF Len(alt.context) > Len(kept.context)
                THEN Failure(alt.context, kept.expected,
                             Some(Failure_to_owned(alt)), alt.rest)
                ELSE kept
           [] OTHER -> alt

\* The first alternative of color: rgb_hex(text).or_else(|_|
\* rgb_functional(text)); its failure is taken whatever its context.
color_first(t) ==
    LET hex == rgb_hex(t)
        rgb == IF IsErr(hex) THEN rgb_functional(t) ELSE hex
    IN  CASE IsOk(rgb) -> Success_map_value(rgb, Color_from(rgb.value))
          [] IsErr(rgb) ->
                Failure(rgb.context, "color value",
                        Some(Failure_to_owned(rgb)), rgb.rest)
          [] OTHER -> rgb

color(t) ==
    color_alternative(
        color_alternative(
            color_alternative(
                color_alternative(color_first(t), cmyk_functional(t)),
                hsv_functional(t)),
            hsl_functional(t)),
        xyz_functional(t))

-----------------------------------------------------------------------------
(* cell.rs as parse/selection.rs uses it: the reserved tokens and the      *)
(* validated range selectors                                               *)

REF_ALL_TOKEN == "*"

REF_SEP_TOKEN == ","

REF_POS_SEP_TOKEN == "."

REF_PREFIX_TOKEN == ":"

REF_RANGE_TOKEN == "-"

\* a <= b for two numbers given by their limbs.
RECURSIVE BigLeq(_, _)
BigLeq(a, b) ==
    IF Len(a) # Len(b) THEN Len(a) < Len(b)
    ELSE IF a = <<>> THEN TRUE
    ELSE IF a[Len(a)] # b[Len(b)] THEN a[Len(a)] < b[Len(b)]
    ELSE BigLeq(Take(a, Len(a) - 1), Take(b, Len(b) - 1))

\* Position's ordering: by page, then line, then column.
PositionLeq(a, b) ==
    \/ a.page < b.page
    \/ a.page = b.page /\ a.line < b.line
    \/ a.page = b.page /\ a.line = b.line /\ a.column <= b.column

\* CellSelector::position_range, index_range and group_range: Some(the
\* range selector), or None for the error of a range whose upper bound is
\* below its lower bound (for groups: of another group, or a lower index).
position_range(low, high) ==
    IF PositionLeq(low, high)
    THEN Some([selector |-> "PositionRange", low |-> low, high |-> high])
    ELSE None

index_range(low, high) ==
    IF BigLeq(low, high)
    THEN Some([selector |-> "IndexRange", low |-> low, high |-> high])
    ELSE None

group_range(group_low, idx_low, group_high, idx_high) ==
    IF group_low = group_high /\ BigLeq(idx_low, idx_high)
    THEN Some([selector |-> "GroupRange", group |-> group_low,
               low |-> idx_low, high |-> idx_high])
    ELSE None

-----------------------------------------------------------------------------
(* parse/selection.rs                                                      *)

\* prev.join_with(r, text, |_, v| v) behind the `?` that returns a failure.
join_part(prev, r, t) ==
    IF IsOk(r) THEN Success_join_with(prev, r, t, r.value) ELSE r

\* One further part of a multi-part rule: parser p behind the success
\* prev, its failure named `expected` and joined behind prev's token.
next_part(prev, p, expected, t) ==
    join_part(prev,
              with_join_context(source_for(Run(p, prev.rest), expected),
                                prev, t),
              t)

\* The parts of position and position_selector behind the prefix: a field,
\* then twice the separator and a field.
position_part_names == <<"page", "separator", "line", "separator", "column">>

\* The body shared by position and position_selector from part i on: prev
\* is the success so far and values the field values so far.
RECURSIVE position_parts_from(_, _, _, _, _, _)
position_parts_step(r, values, i, field, rule, t) ==
    position_parts_from(
        r,
        IF IsOk(r) /\ position_part_names[i] # "separator"
        THEN Append(values, r.value) ELSE values,
        i + 1, field, rule, t)

position_parts_from(prev, values, i, field, rule, t) ==
    IF ~IsOk(prev) THEN prev
    ELSE IF i > Len(position_part_names) THEN Success_map_value(prev, values)
    ELSE position_parts_step(
            next_part(prev,
                      IF position_part_names[i] = "separator"
                      THEN <<"char", REF_POS_SEP_TOKEN>> ELSE field,
                      <<rule, position_part_names[i]>>, t),
            values, i, field, rule, t)

position_parts(field, rule, t) ==
    position_parts_from(
        with_new_context(
            source_for(char(REF_PREFIX_TOKEN, t), <<rule, "prefix">>),
            <<>>, t),
        <<>>, 1, field, rule, t)

\* The closure of position: Position { page, line, column }.
Position(s) ==
    IF IsOk(s)
    THEN Success_map_value(s, [page |-> ToInt(s.value[1]),
                               line |-> ToInt(s.value[2]),
                               column |-> ToInt(s.value[3])])
    ELSE s

position(t) ==
    Position(position_parts(<<"uint", "u16">>, "cell ref position", t))

u16_or_all(t) ==
    IF IsOk(char(REF_ALL_TOKEN, t))
    THEN Success_map_value(char(REF_ALL_TOKEN, t), None)
    ELSE IF IsOk(uint("u16", t))
    THEN Success_map_value(uint("u16", t), Some(ToInt(uint("u16", t).value)))
    ELSE uint("u16", t)

\* The closure of position_selector: PositionSelector { page, line, column }.
PositionSelector(s) ==
    IF IsOk(s)
    THEN Success_map_value(s, [page |-> s.value[1], line |-> s.value[2],
                               column |-> s.value[3]])
    ELSE s

position_selector(t) ==
    PositionSelector(
        position_parts(<<"u16_or_all">>, "cell ref position selector", t))

range_suffix(p, t) ==
    prefix(p, <<"circumfix", <<"char", REF_RANGE_TOKEN>>,
                <<"maybe", <<"whitespace">>>>>>, t)

index(t) ==
    source_for(prefix(<<"uint", "u32">>, <<"char", REF_PREFIX_TOKEN>>, t),
               "cell ref index")

\* The Success of name behind the `?`: the matched characters, trimmed.
name_context(res, t) ==
    IF IsOk(res)
    THEN Success(trim(Take(t, Len(t) - Len(res.rest))),
                 Take(t, Len(t) - Len(res.rest)), res.rest)
    ELSE res

name(t) ==
    name_context(
        source_for(
            repeat(1, None, <<"char_matching", <<"valid_name_char">>>>, t),
            "cell ref name"),
        t)

\* group behind the `?` on the name: the index joined behind it.
group_name(name_suc, t) ==
    IF ~IsOk(name_suc) THEN name_suc
    ELSE IF IsOk(index(name_suc.rest))
    THEN Success_join_with(name_suc, index(name_suc.rest), t,
                           <<name_suc.value, index(name_suc.rest).value>>)
    ELSE with_join_context(
            source_for(index(name_suc.rest), "cell ref group index"),
            name_suc, t)

group(t) == group_name(source_for(name(t), "cell ref group name"), t)

group_all(t) ==
    source_for(
        postfix(<<"name">>,
                <<"postfix", <<"char", REF_PREFIX_TOKEN>>,
                  <<"char", REF_ALL_TOKEN>>>>, t),
        "cell ref group all")

cell_ref(t) ==
    IF IsOk(position(t))
    THEN Success_map_value(position(t), [ref |-> "Position",
                                         position |-> position(t).value])
    ELSE IF IsOk(index(t))
    THEN Success_map_value(index(t), [ref |-> "Index",
                                      index |-> index(t).value])
    ELSE IF IsOk(group(t))
    THEN Success_map_value(group(t), [ref |-> "Group",
                                      group |-> group(t).value[1],
                                      idx |-> group(t).value[2]])
    ELSE IF IsOk(name(t))
    THEN Success_map_value(name(t), [ref |-> "Name",
                                     name |-> name(t).value])
    ELSE source_for(name(t), "cell ref value")

\* The error of the range constructors, boxed as source of the failure.
InvalidCellSelector == [error |-> "InvalidCellSelector"]

\* cell_selector_range with the context of a rejected range ending behind
\* the lower bound.
cell_selector_range_cut(first_suc, ub_suc, range, expected, single, t) ==
    IF IsOk(ub_suc)
    THEN IF range # None
         THEN Success_join_with(first_suc, ub_suc, t, range[1])
         ELSE Failure(first_suc.token, expected,
                      Some(InvalidCellSelector), t)
    ELSE Success_map_value(first_suc, single)

\* The range arms of cell_selector: behind the lower bound first_suc, a
\* range suffix whose bounds make the selector `range` (None when the
\* selector rejects them), or else the single selector.
cell_selector_range(first_suc, ub_suc, range, expected, single, t) ==
    IF IsOk(ub_suc)
    THEN IF range # None
         THEN Success_join_with(first_suc, ub_suc, t, range[1])
         ELSE IF IsOk(Success_join(first_suc, ub_suc, t))
         THEN Failure(Success_join(first_suc, ub_suc, t).token, expected,
                      Some(InvalidCellSelector), t)
         ELSE Panic
    ELSE Success_map_value(first_suc, single)

\* The arms of cell_selector, each the else of the one before.
cell_selector_group(group_suc, t) ==
    IF IsOk(group_suc)
    THEN cell_selector_range(
            group_suc, range_suffix(<<"group">>, group_suc.rest),
            IF IsOk(range_suffix(<<"group">>, group_suc.rest))
            THEN group_range(
                    group_suc.value[1], group_suc.value[2],
                    range_suffix(<<"group">>, group_suc.rest).value[1],
                    range_suffix(<<"group">>, group_suc.rest).value[2])
            ELSE None,
            "valid group range",
            [selector |-> "Group", group |-> group_suc.value[1],
             idx |-> group_suc.value[2]],
            t)
    ELSE IF IsOk(name(t))
    THEN Success_map_value(name(t), [selector |-> "Name",
                                     name |-> name(t).value])
    ELSE source_for(name(t), "cell selector value")

cell_selector_group_all(group_all_suc, t) ==
    IF IsOk(group_all_suc)
    THEN Success_map_value(group_all_suc,
                           [selector |-> "GroupAll",
                            group |-> group_all_suc.value])
    ELSE cell_selector_group(group(t), t)

cell_selector_index(index_suc, t) ==
    IF IsOk(index_suc)
    THEN cell_selector_range(
            index_suc, range_suffix(<<"index">>, index_suc.rest),
            IF IsOk(range_suffix(<<"index">>, index_suc.rest))
            THEN index_range(
                    index_suc.value,
                    range_suffix(<<"index">>, index_suc.rest).value)
            ELSE None,
            "valid index range",
            [selector |-> "Index", index |-> index_suc.value],
            t)
    ELSE cell_selector_group_all(group_all(t), t)

cell_selector_position_selector(pos_sel_suc, t) ==
    IF IsOk(pos_sel_suc)
    THEN Success_map_value(pos_sel_suc,
                           [selector |-> "PositionSelector",
                            page |-> pos_sel_suc.value.page,
                            line |-> pos_sel_suc.value.line,
                            column |-> pos_sel_suc.value.column])
    ELSE cell_selector_index(index(t), t)

cell_selector_position(pos_suc, t) ==
    IF IsOk(pos_suc)
    THEN cell_selector_range(
            pos_suc, range_suffix(<<"position">>, pos_suc.rest),
            IF IsOk(range_suffix(<<"position">>, pos_suc.rest))
            THEN position_range(
                    pos_suc.value,
                    range_suffix(<<"position">>, pos_suc.rest).value)
            ELSE None,
            "valid position range",
            [selector |-> "PositionSelector",
             page |-> Some(pos_suc.value.page),
             line |-> Some(pos_suc.value.line),
             column |-> Some(pos_suc.value.column)],
            t)
    ELSE cell_selector_position_selector(position_selector(t), t)

\* cell_selector with the index alternative tried before the positions.
cell_selector_index_first(t) ==
    IF IsOk(char(REF_ALL_TOKEN, t))
    THEN Success_map_value(char(REF_ALL_TOKEN, t), [selector |-> "All"])
    ELSE IF IsOk(index(t))
    THEN cell_selector_index(index(t), t)
    ELSE cell_selector_position(position(t), t)

cell_selector(t) ==
    IF IsOk(char(REF_ALL_TOKEN, t))
    THEN Success_map_value(char(REF_ALL_TOKEN, t), [selector |-> "All"])
    ELSE cell_selector_position(position(t), t)

\* cell_selection over an optional selector and an optional separator: a
\* repetition that can succeed on nothing.
cell_selection_optional(t) ==
    source_for(
        intersperse_collect(
            1, None, <<"maybe", <<"cell_selector">>>>,
            <<"maybe", <<"char", REF_SEP_TOKEN>>>>, t),
        "cell selection")

cell_selection(t) ==
    source_for(
        intersperse_collect(
            1, None, <<"cell_selector">>,
            <<"circumfix", <<"char", REF_SEP_TOKEN>>,
              <<"maybe", <<"whitespace">>>>>>, t),
        "cell selection")

-----------------------------------------------------------------------------
(* Applying a parser value                                                 *)

Run(p, t) ==
    CASE p[1] = "null"            -> null(t)
      [] p[1] = "char"            -> char(p[2], t)
      [] p[1] = "char_in"         -> char_in(p[2], t)
      [] p[1] = "char_matching"   -> char_matching(p[2], t)
      [] p[1] = "char_whitespace" -> char_whitespace(t)
      [] p[1] = "whitespace"      -> whitespace(t)
      [] p[1] = "literal"         -> literal(p[2], t)
      [] p[1] = "literal_ignore_ascii_case" ->
            literal_ignore_ascii_case(p[2], t)
      [] p[1] = "tokenize"        -> tokenize(p[2], t)
      [] p[1] = "maybe"           -> maybe(p[2], t)
      [] p[1] = "atomic"          -> atomic(p[2], t)
      [] p[1] = "atomic_ignore_whitespace" ->
            atomic_ignore_whitespace(p[2], t)
      [] p[1] = "repeat"          -> repeat(p[2], p[3], p[4], t)
      [] p[1] = "repeat_collect"  -> repeat_collect(p[2], p[3], p[4], t)
      [] p[1] = "intersperse"     -> intersperse(p[2], p[3], p[4], p[5], t)
      [] p[1] = "intersperse_collect" ->
            intersperse_collect(p[2], p[3], p[4], p[5], t)
      [] p[1] = "repeat_until"    ->
            repeat_until(p[2], p[3], p[4], p[5], t)
      [] p[1] = "intersperse_until" ->
            intersperse_until(p[2], p[3], p[4], p[5], p[6], t)
      [] p[1] = "intersperse_collect_until" ->
            intersperse_collect_until(p[2], p[3], p[4], p[5], p[6], t)
      [] p[1] = "expect_failure"  -> expect_failure(Run(p[2], t))
      [] p[1] = "expect_end_of_text" -> expect_end_of_text(Run(p[2], t))
      [] p[1] = "pair"            -> pair(p[2], p[3], t)
      [] p[1] = "prefix"          -> prefix(p[2], p[3], t)
      [] p[1] = "postfix"         -> postfix(p[2], p[3], t)
      [] p[1] = "circumfix"       -> circumfix(p[2], p[3], t)
      [] p[1] = "bracket"         -> bracket(p[2], p[3], p[4], t)
      [] p[1] = "any_literal_map" -> any_literal_map(p[2], p[3], p[4], t)
      [] p[1] = "prefix_radix_token" -> prefix_radix_token(t)
      [] p[1] = "escaped_string"  -> escaped_string(p[2], p[3], t)
      [] p[1] = "float"           -> float(p[2], t)
      [] p[1] = "float_exp"       -> float_exp(t)
      [] p[1] = "functional"      -> functional(p[2], t)
      [] p[1] = "rgb_hex_6"       -> rgb_hex_6(t)
      [] p[1] = "rgb_hex_3"       -> rgb_hex_3(t)
      [] p[1] = "rgb_hex"         -> rgb_hex(t)
      [] p[1] = "rgb_functional"  -> rgb_functional(t)
      [] p[1] = "hsv_functional"  -> hsv_functional(t)
      [] p[1] = "hsl_functional"  -> hsl_functional(t)
      [] p[1] = "cmyk_functional" -> cmyk_functional(t)
      [] p[1] = "xyz_functional"  -> xyz_functional(t)
      [] p[1] = "color"           -> color(t)
      [] p[1] = "uint"            -> uint(p[2], t)
      [] p[1] = "uint_value"      -> uint_value(p[2], p[3], t)
      [] p[1] = "uint_digits_value" ->
            uint_digits_value(p[2], p[3], p[4], p[5], t)
      [] p[1] = "position"          -> position(t)
      [] p[1] = "position_selector" -> position_selector(t)
      [] p[1] = "u16_or_all"        -> u16_or_all(t)
      [] p[1] = "index"             -> index(t)
      [] p[1] = "name"              -> name(t)
      [] p[1] = "group"             -> group(t)
      [] p[1] = "group_all"         -> group_all(t)
      [] p[1] = "cell_ref"          -> cell_ref(t)
      [] p[1] = "cell_selector"     -> cell_selector(t)
      [] p[1] = "cell_selection"    -> cell_selection(t)

-----------------------------------------------------------------------------
(* Spec: the combinators applied to every short text over a small alphabet *)

MaxLen == 3

MaxLow == 2

MaxHigh == 2

\* All texts of at most n characters of the set chars.
RECURSIVE Texts(_, _)
Texts(chars, n) ==
    IF n = 0 THEN {<<>>}
    ELSE LET shorter == Texts(chars, n - 1)
         IN  shorter \cup {Append(s, c) : s \in shorter, c \in chars}

CombChars == {"a", "b", ",", " "}

Lows == 0..MaxLow

Highs == {None} \cup {Some(h) : h \in 0..MaxHigh}

Leaves ==
    { <<"char", "a">>, <<"char_in", <<"a", "b">>>>,
      <<"char_matching", <<"any">>>>, <<"whitespace">>,
      <<"literal", <<"a", "b">>>>,
      <<"literal_ignore_ascii_case", <<"A", "b">>>> }

Separators == { <<"char", ",">>, <<"maybe", <<"char", ",">>>> }

Items == { <<"char", "a">>, <<"maybe", <<"char", "a">>>> }

Optionals ==
    { <<c, p>> : c \in {"maybe", "atomic", "atomic_ignore_whitespace"},
                 p \in Leaves }

Repeats ==
    { <<c, low, high, p>> : c \in {"repeat", "repeat_collect"},
                            low \in Lows, high \in Highs, p \in Items }

Intersperses ==
    { <<c, low, high, p, sep>> :
        c \in {"intersperse", "intersperse_collect"},
        low \in Lows, high \in Highs, p \in Items, sep \in Separators }

Sequences2 ==
    { <<c, p, q>> : c \in {"pair", "prefix", "postfix", "circumfix"},
                    p \in {<<"char", "a">>, <<"literal", <<"a", "b">>>>},
                    q \in {<<"char", ",">>, <<"whitespace">>,
                           <<"literal_ignore_ascii_case", <<"A", "b">>>>} }
    \cup
    { <<"bracket", <<"char", "a">>, q, r>> :
        q \in {<<"char", ",">>, <<"whitespace">>},
        r \in {<<"char", ",">>, <<"literal", <<"a", "b">>>>} }
    \cup
    { <<"any_literal_map", f, "letter",
        << <<<<"a", "b">>, 1>>, <<<<"a">>, 2>> >> >> :
        f \in {"literal", "literal_ignore_ascii_case"} }

\* Combinators over combinators: an optional or a sequence around a
\* repetition with a lower limit.
Nested ==
    { <<c, <<r, 2, None, <<"char", "a">>, sep>>>> :
        c \in {"maybe", "atomic", "atomic_ignore_whitespace"},
        r \in {"intersperse", "intersperse_collect"},
        sep \in {<<"char", ",">>, <<"whitespace">>} }
    \cup
    { <<c, <<r, 2, Some(2), <<"char", "a">>, <<"char", ",">>>>,
           <<"char", "b">>>> :
        c \in {"pair", "prefix", "postfix"},
        r \in {"intersperse", "intersperse_collect"} }

\* The result transforms applied to the result of a parser.
Transforms ==
    { <<c, p>> : c \in {"expect_failure", "expect_end_of_text"},
                 p \in Leaves \cup Sequences2 }

NoResult == [kind |-> "none"]

\* No command has been dispatched.
NoCommand ==
    /\ palette = <<>>
    /\ command = <<"none">>
    /\ performed = 0
    /\ written = 0

Idle ==
    /\ pc = "idle"
    /\ suc = NoResult
    /\ count = 0
    /\ iters = 0
    /\ NoCommand

Init ==
    /\ text \in Texts(CombChars, MaxLen)
    /\ parser = <<"none">>
    /\ result = NoResult
    /\ Idle

\* Each action invokes one parser of its family on the text.
ApplyLeaf ==
    /\ parser = <<"none">>
    /\ \E p \in Leaves :
        /\ parser' = p
        /\ result' = Run(p, text)
    /\ UNCHANGED <<text, pc, suc, count, iters, dispatch_vars>>

ApplyOptional ==
    /\ parser = <<"none">>
    /\ \E p \in Optionals :
        /\ parser' = p
        /\ result' = Run(p, text)
    /\ UNCHANGED <<text, pc, suc, count, iters, dispatch_vars>>

ApplyRepeat ==
    /\ parser = <<"none">>
    /\ \E p \in Repeats :
        /\ parser' = p
        /\ result' = Run(p, text)
    /\ UNCHANGED <<text, pc, suc, count, iters, dispatch_vars>>

ApplyIntersperse ==
    /\ parser = <<"none">>
    /\ \E p \in Intersperses :
        /\ parser' = p
        /\ result' = Run(p, text)
    /\ UNCHANGED <<text, pc, suc, count, iters, dispatch_vars>>

ApplySequence ==
    /\ parser = <<"none">>
    /\ \E p \in Sequences2 :
        /\ parser' = p
        /\ result' = Run(p, text)
    /\ UNCHANGED <<text, pc, suc, count, iters, dispatch_vars>>

ApplyNested ==
    /\ parser = <<"none">>
    /\ \E p \in Nested :
        /\ parser' = p
        /\ result' = Run(p, text)
    /\ UNCHANGED <<text, pc, suc, count, iters, dispatch_vars>>

ApplyTransform ==
    /\ parser = <<"none">>
    /\ \E p \in Transforms :
        /\ parser' = p
        /\ result' = Run(p, text)
    /\ UNCHANGED <<text, pc, suc, count, iters, dispatch_vars>>

Next ==
    \/ ApplyLeaf
    \/ ApplyOptional
    \/ ApplyRepeat
    \/ ApplyIntersperse
    \/ ApplySequence
    \/ ApplyNested
    \/ ApplyTransform

Spec == Init /\ [][Next]_vars

-----------------------------------------------------------------------------
(* SpecLoop: the body of intersperse / intersperse_collect, one step per   *)
(* loop iteration.  pc is the position in the body, suc and count are the  *)
(* locals of the same name; iters counts the iterations of the second      *)
(* loop.  parser is the intersperse(_collect) parser being run.            *)

\* The second loop is followed for at most MaxIters iterations.
MaxIters == 6

LoopChars == {"a", ","}

LoopParsers ==
    { <<c, low, high, p, sep>> :
        c \in {"intersperse", "intersperse_collect"},
        low \in Lows, high \in Highs, p \in Items,
        sep \in Separators \cup {<<"null">>} }

Collects == parser[1] = "intersperse_collect"

InitLoop ==
    /\ text \in Texts(LoopChars, MaxLen)
    /\ parser \in LoopParsers
    /\ result = NoResult
    /\ pc = "start"
    /\ suc = NoResult
    /\ count = 0
    /\ iters = 0
    /\ NoCommand

\* The value `suc` holds after a further repetition `next`.
Joined(next) ==
    IF Collects
    THEN IF IsOk(next)
         THEN Success_join_with(suc, next, text,
                                Append(suc.value, next.value))
         ELSE next
    ELSE with_join_previous(discard_value(next), suc, text)

\* let mut suc = match (parser)(text) { ... }; let mut count = 1;
First ==
    /\ pc = "start"
    /\ \E first \in {Run(parser[4], text)} :
          CASE IsOk(first) ->
                    /\ suc' = IF Collects
                              THEN Success_map_value(first, <<first.value>>)
                              ELSE Success_map_value(first, <<>>)
                    /\ count' = 1
                    /\ pc' = "low"
                    /\ UNCHANGED result
            [] IsErr(first) /\ parser[2] = 0 ->
                    /\ result' = Success(IF Collects THEN <<>> ELSE 0,
                                         <<>>, text)
                    /\ pc' = "done"
                    /\ UNCHANGED <<suc, count>>
            [] OTHER ->
                    /\ result' = first
                    /\ pc' = "done"
                    /\ UNCHANGED <<suc, count>>
    /\ UNCHANGED <<text, parser, iters, dispatch_vars>>

\* One iteration of `while count < low`: a failed repetition is returned,
\* by intersperse after with_join_previous, by intersperse_collect as it is.
LowIterate ==
    /\ pc = "low"
    /\ count < parser[2]
    /\ \E joined \in {Joined(Run(<<"prefix", parser[4], parser[5]>>,
                                suc.rest))} :
          IF IsOk(joined)
          THEN /\ suc' = joined
               /\ count' = count + 1
               /\ UNCHANGED <<pc, result>>
          ELSE /\ result' = joined
               /\ pc' = "done"
               /\ UNCHANGED <<suc, count>>
    /\ UNCHANGED <<text, parser, iters, dispatch_vars>>

\* `count < low` is false: the first loop is left.
LowExit ==
    /\ pc = "low"
    /\ ~(count < parser[2])
    /\ pc' = "high"
    /\ UNCHANGED <<text, parser, result, suc, count, iters, dispatch_vars>>

\* One iteration of `while high.map_or(true, |h| count < h)`: a failed
\* repetition ends the loop, a successful one is joined behind suc.
HighIterate ==
    /\ pc = "high"
    /\ HighAllows(parser[3], count)
    /\ iters < MaxIters
    /\ iters' = iters + 1
    /\ \E next \in {Run(<<"prefix", parser[4], parser[5]>>, suc.rest)} :
          IF IsErr(next)
          THEN /\ pc' = "return"
               /\ UNCHANGED <<result, suc, count>>
          ELSE \E joined \in {Joined(next)} :
                  IF IsOk(joined)
                  THEN /\ suc' = joined
                       /\ count' = count + 1
                       /\ pc' = IF HighAllows(parser[3], count + 1)
                                THEN "high" ELSE "return"
                       /\ UNCHANGED result
                  ELSE /\ result' = joined
                       /\ pc' = "done"
                       /\ UNCHANGED <<suc, count>>
    /\ UNCHANGED <<text, parser, dispatch_vars>>

\* The loop condition is false: the second loop is left.
HighExit ==
    /\ pc = "high"
    /\ ~HighAllows(parser[3], count)
    /\ pc' = "return"
    /\ UNCHANGED <<text, parser, result, suc, count, iters, dispatch_vars>>

\* Ok(suc.map_value(|_| count)) / Ok(suc)
Return ==
    /\ pc = "return"
    /\ result' = IF Collects THEN suc ELSE Success_map_value(suc, count)
    /\ pc' = "done"
    /\ UNCHANGED <<text, parser, suc, count, iters, dispatch_vars>>

NextLoop ==
    \/ First
    \/ LowIterate
    \/ LowExit
    \/ HighIterate
    \/ HighExit
    \/ Return

SpecLoop == InitLoop /\ [][NextLoop]_vars

-----------------------------------------------------------------------------
(* SpecUint: the integer parsers applied to short texts over digits,       *)
(* underscores and radix prefixes, and to long runs of one digit.          *)

\* The longest run of one digit in a text.
MaxDigits == 20

UintChars == {"0", "1", "f", "_", "x", "b"}

IntTypes == {"u16", "u32", "u64"}

Radixes == {2, 8, 10, 16}

\* n copies of the character c.
RECURSIVE Repeated(_, _)
Repeated(c, n) == IF n = 0 THEN <<>> ELSE Append(Repeated(c, n - 1), c)

RadixPrefixes ==
    {<<>>, INT_RADIX_PREFIX_BIN, INT_RADIX_PREFIX_OCT, INT_RADIX_PREFIX_HEX}

\* The decimal digits of 2^16, 2^32 and 2^64, and of the numbers before.
BoundaryTexts ==
    { <<"6","5","5","3","5">>, <<"6","5","5","3","6">>,
      <<"4","2","9","4","9","6","7","2","9","5">>,
      <<"4","2","9","4","9","6","7","2","9","6">>,
      <<"1","8","4","4","6","7","4","4","0","7",
        "3","7","0","9","5","5","1","6","1","5">>,
      <<"1","8","4","4","6","7","4","4","0","7",
        "3","7","0","9","5","5","1","6","1","6">> }

UintTexts ==
    Texts(UintChars, MaxLen)
    \cup { pre \o Repeated(c, n) \o tail :
             pre \in RadixPrefixes, c \in {"1", "7", "9", "f"},
             n \in 1..MaxDigits, tail \in {<<>>, <<" ">>} }
    \cup BoundaryTexts

UintParsers == { <<"uint", T>> : T \in IntTypes }

UintDigitsParsers ==
    { <<"uint_digits_value", T, low, high, radix>> :
        T \in {"u16", "u32"}, low \in Lows, high \in Highs,
        radix \in {10, 16} }
    \cup { <<"uint_digits_value", "u64", 1, None, radix>> :
             radix \in Radixes }

InitUint ==
    /\ text \in UintTexts
    /\ parser = <<"none">>
    /\ result = NoResult
    /\ Idle

ApplyUint ==
    /\ parser = <<"none">>
    /\ \E p \in UintParsers :
        /\ parser' = p
        /\ result' = Run(p, text)
    /\ UNCHANGED <<text, pc, suc, count, iters, dispatch_vars>>

ApplyUintDigits ==
    /\ parser = <<"none">>
    /\ \E p \in UintDigitsParsers :
        /\ parser' = p
        /\ result' = Run(p, text)
    /\ UNCHANGED <<text, pc, suc, count, iters, dispatch_vars>>

ApplyRadixPrefix ==
    /\ parser = <<"none">>
    /\ parser' = <<"prefix_radix_token">>
    /\ result' = Run(<<"prefix_radix_token">>, text)
    /\ UNCHANGED <<text, pc, suc, count, iters, dispatch_vars>>

NextUint ==
    \/ ApplyUint
    \/ ApplyUintDigits
    \/ ApplyRadixPrefix

SpecUint == InitUint /\ [][NextUint]_vars

-----------------------------------------------------------------------------
(* SpecGrammar: the color, number and cell selection parsers applied to    *)
(* texts built from the pieces of their grammars                           *)

MaxHexLen == 5

MaxArgs == 4

MaxNumLen == 3

MaxSelectors == 3

HexChars == {"1", "f", "_", "g"}

HexTexts ==
    { <<RGB_HEX_PREFIX>> \o s : s \in Texts(HexChars, MaxHexLen) }
    \cup { <<RGB_HEX_PREFIX>> \o s \o tail :
             s \in Texts({"1", "F"}, 6) \ Texts({"1", "F"}, 5),
             tail \in {<<>>, <<"1">>, <<"g">>} }

\* The texts of the sequences of s joined by sep.
RECURSIVE JoinTexts(_, _)
JoinTexts(s, sep) ==
    IF s = <<>> THEN <<>>
    ELSE IF Len(s) = 1 THEN s[1]
    ELSE s[1] \o sep \o JoinTexts(Tail(s), sep)

\* The sequences of length n over the set S.
Tuples(S, n) == [1..n -> S]

FunctionalNames ==
    { <<"r", "g", "b">>, <<"R", "g", "B">>, <<"h", "s", "v">>,
      <<"h", "s", "l">>, <<"c", "m", "y", "k">>, <<"x", "y", "z">> }

FunctionalArgs == { <<"1">>, <<"-", ".", "5">> }

FunctionalTexts ==
    { fname \o open \o JoinTexts(args, sep) \o close :
        fname \in FunctionalNames,
        open \in {<<FUNCTIONAL_OPEN_BRACKET>>,
                  <<FUNCTIONAL_OPEN_BRACKET, " ">>, <<>>},
        args \in UNION { Tuples(FunctionalArgs, n) : n \in 0..MaxArgs },
        sep \in {<<FUNCTIONAL_SEPARATOR>>, <<" ", FUNCTIONAL_SEPARATOR, " ">>},
        close \in {<<FUNCTIONAL_CLOSE_BRACKET>>,
                   <<" ", FUNCTIONAL_CLOSE_BRACKET>>, <<>>} }

NumChars == {"-", "1", ".", "e", "0", "x", " "}

NumTexts ==
    Texts(NumChars, MaxNumLen)
    \cup { <<"i", "n", "f">>, <<"-", "n", "a", "n">>, <<"N", "a", "N">>,
           <<"1", "e", "+", "1", "1">>, <<"1", ".", "e", "1", " ">>,
           <<"-", "1", ".", "1", "e", "-", "1", "x">>,
           <<" ", " ", " ", " ", "1">>, <<"0", "x", "1", "f", "_", "1", " ">> }

SelectorFields == {<<"1">>, <<"2">>, <<REF_ALL_TOKEN>>}

SelectorAtoms ==
    { <<REF_PREFIX_TOKEN, "1", REF_POS_SEP_TOKEN>> \o l
        \o <<REF_POS_SEP_TOKEN>> \o c :
        l \in SelectorFields, c \in SelectorFields }
    \cup { <<REF_PREFIX_TOKEN>> \o i : i \in {<<"0">>, <<"1">>, <<"2">>} }
    \cup { n \o <<REF_PREFIX_TOKEN>> \o i :
             n \in {<<"a">>, <<"b">>},
             i \in {<<"1">>, <<"2">>, <<REF_ALL_TOKEN>>} }
    \cup { <<"a">>, <<"a", "b">>, <<REF_ALL_TOKEN>>, <<>>,
           <<REF_PREFIX_TOKEN>>,
           <<REF_PREFIX_TOKEN, "1", REF_POS_SEP_TOKEN, "2">>,
           <<REF_PREFIX_TOKEN, "1", REF_POS_SEP_TOKEN, "2",
             REF_POS_SEP_TOKEN>> }

RangeTexts ==
    { a \o dash \o b :
        a \in SelectorAtoms, b \in SelectorAtoms,
        dash \in {<<REF_RANGE_TOKEN>>, <<" ", REF_RANGE_TOKEN, " ">>} }

ListAtoms ==
    { <<REF_ALL_TOKEN>>, <<"a">>, <<"a", REF_PREFIX_TOKEN, "1">>,
      <<REF_PREFIX_TOKEN, "1">>,
      <<REF_PREFIX_TOKEN, "2", REF_RANGE_TOKEN, REF_PREFIX_TOKEN, "1">>,
      <<"a", " ", "b">>, <<>> }

ListTexts ==
    { JoinTexts(s, sep) \o tail :
        s \in UNION { Tuples(ListAtoms, n) : n \in 1..MaxSelectors },
        sep \in {<<REF_SEP_TOKEN>>, <<" ", REF_SEP_TOKEN, " ">>},
        tail \in {<<>>, <<REF_SEP_TOKEN>>} }

\* Positions with a field beyond u16, and one at its upper end.
OverflowTexts ==
    { <<REF_PREFIX_TOKEN>> \o page \o <<REF_POS_SEP_TOKEN>> \o line
        \o <<REF_POS_SEP_TOKEN>> \o column :
        page \in {<<"1">>, <<"6", "5", "5", "3", "6">>},
        line \in {<<"2">>, <<"6", "5", "5", "3", "6">>},
        column \in {<<"6", "5", "5", "3", "5">>,
                     <<"6", "5", "5", "3", "6">>} }

GrammarTexts ==
    HexTexts \cup FunctionalTexts \cup NumTexts \cup SelectorAtoms
    \cup RangeTexts \cup ListTexts \cup OverflowTexts

ColorParsers ==
    { <<"color">>, <<"rgb_hex">>, <<"rgb_hex_6">>, <<"rgb_hex_3">>,
      <<"rgb_functional">>, <<"hsv_functional">>, <<"hsl_functional">>,
      <<"cmyk_functional">>, <<"xyz_functional">>,
      <<"functional", 3>>, <<"functional", 4>> }

NumberParsers ==
    { <<"uint", "u16">>, <<"uint", "u32">>, <<"float", "f32">>,
      <<"float_exp">>, <<"whitespace">> }

SelectionParsers ==
    { <<"cell_selection">>, <<"cell_selector">>, <<"cell_ref">>,
      <<"position">>, <<"position_selector">>, <<"u16_or_all">>,
      <<"index">>, <<"name">>, <<"group">>, <<"group_all">> }

InitGrammar ==
    /\ text \in GrammarTexts
    /\ parser = <<"none">>
    /\ result = NoResult
    /\ Idle

ApplyColor ==
    /\ parser = <<"none">>
    /\ \E p \in ColorParsers :
        /\ parser' = p
        /\ result' = Run(p, text)
    /\ UNCHANGED <<text, pc, suc, count, iters, dispatch_vars>>

ApplyNumber ==
    /\ parser = <<"none">>
    /\ \E p \in NumberParsers :
        /\ parser' = p
        /\ result' = Run(p, text)
    /\ UNCHANGED <<text, pc, suc, count, iters, dispatch_vars>>

ApplySelection ==
    /\ parser = <<"none">>
    /\ \E p \in SelectionParsers :
        /\ parser' = p
        /\ result' = Run(p, text)
    /\ UNCHANGED <<text, pc, suc, count, iters, dispatch_vars>>

NextGrammar == ApplyColor \/ ApplyNumber \/ ApplySelection

SpecGrammar == InitGrammar /\ [][NextGrammar]_vars

-----------------------------------------------------------------------------
(* Claims checked under Spec                                               *)

\* C1: whenever a parser invoked on a text returns a Failure, the
\* Failure's rest is exactly that text, never a partially advanced slice.
C1_FailureRestIsInput == IsErr(result) => result.rest = text

\* C2: whenever a parser invoked on a text returns a Success, its token
\* followed by its rest is exactly that text: the token is a prefix of the
\* text and the rest the suffix that follows it.
C2_TokenThenRestIsInput == IsOk(result) => result.token \o result.rest = text

\* C3 (checked under SpecLoop): the repetition loops end on every finite
\* text even when the repeated parser and the separator succeed without
\* consuming input and high is None: such a repetition is an error or is
\* the last one, so a call never runs more second-loop iterations than the
\* text has characters, plus one.
C3_LoopEndsOnEmptyMatch == iters <= Len(text) + 1

\* The number of consecutive matches of p at the start of t, for a parser
\* p that consumes text whenever it succeeds.
RECURSIVE LeadingMatches(_, _)
LeadingMatches(p, t) ==
    LET r == Run(p, t)
    IN  IF IsOk(r) /\ r.token # <<>> THEN 1 + LeadingMatches(p, r.rest)
        ELSE 0

Min(a, b) == IF a <= b THEN a ELSE b

\* C5: on a text that starts with exactly k consecutive matches of p,
\* repeat(low, high, p) succeeds with the count min(k, high) (k when high
\* is None) and a token spanning that many matches when k >= low, and
\* fails when k < low.
C5_RepeatCount ==
    (parser[1] = "repeat" /\ parser[4] = <<"char", "a">>) =>
        LET low  == parser[2]
            high == parser[3]
            k    == LeadingMatches(parser[4], text)
            n    == IF high = None THEN k ELSE Min(k, high[1])
        IN  IF k >= low
            THEN IsOk(result) /\ result.value = n
                              /\ result.token = Take(text, n)
            ELSE IsErr(result)

\* C12: atomic(p) and maybe(p) wrap a success of p in Some, with p's token
\* and rest; a failure of p with an empty token becomes Ok(None) with an
\* empty token and the input as rest; a failure of p after a non-empty
\* token is returned unchanged by atomic and becomes the same Ok(None) with
\* maybe, which therefore never fails.
C12_AtomicOrNothing ==
    (parser[1] \in {"atomic", "maybe"}) =>
        LET r == Run(parser[2], text)
        IN  /\ IsOk(r) => result = Success(Some(r.value), r.token, r.rest)
            /\ (IsErr(r) /\ r.context = <<>>) =>
                    result = Success(None, <<>>, text)
            /\ (IsErr(r) /\ r.context # <<>>) =>
                    result = IF parser[1] = "atomic" THEN r
                             ELSE Success(None, <<>>, text)
            /\ parser[1] = "maybe" => ~IsErr(result)

\* atomic has returned the failure of a parser that had matched a token.
C12_Witness ==
    /\ parser[1] = "atomic"
    /\ IsErr(result)
    /\ result.context # <<>>
    /\ result = Run(parser[2], text)

\* C13: when p fails with a token that is empty or whitespace only,
\* atomic_ignore_whitespace(p) is Ok(None) whose token is that whitespace
\* and whose rest is the input behind it, so that token followed by rest
\* is the input; when the token of the failure holds any other character
\* the failure is returned unchanged.
C13_WhitespaceFailureIsNone ==
    (parser[1] = "atomic_ignore_whitespace") =>
        LET r == Run(parser[2], text)
        IN  /\ (IsErr(r) /\ trim(r.context) = <<>>) =>
                    /\ IsOk(result)
                    /\ result.value = None
                    /\ result.token = r.context
                    /\ result.token \o result.rest = text
            /\ (IsErr(r) /\ trim(r.context) # <<>>) => result = r

\* The number of leading characters of t that agree with those of expect,
\* letters compared without their case when ignore_case is set.
RECURSIVE SharedPrefix(_, _, _)
SharedPrefix(expect, t, ignore_case) ==
    IF expect = <<>> \/ t = <<>> THEN 0
    ELSE IF Head(expect) = Head(t)
            \/ (ignore_case /\ eq_ignore_ascii_case(Head(expect), Head(t)))
    THEN 1 + SharedPrefix(Tail(expect), Tail(t), ignore_case)
    ELSE 0

\* C14: when literal(expect) or literal_ignore_ascii_case(expect) fails on
\* a text that shares a non-empty proper prefix with expect, the context
\* of the failure is that prefix of the text and its rest is the text.
C14_PartialMatchContext ==
    (parser[1] \in {"literal", "literal_ignore_ascii_case"}) =>
        LET n == SharedPrefix(parser[2], text,
                              parser[1] = "literal_ignore_ascii_case")
        IN  (0 < n /\ n < Len(parser[2])) =>
                /\ IsErr(result)
                /\ result.context = Take(text, n)
                /\ result.rest = text

\* The sub-parsers a sequencing combinator applies one behind the other,
\* in their order; for a repetition the `low` items it requires, with the
\* separators between them.
RECURSIVE Alternating(_, _, _)
Alternating(p, sep, n) ==
    IF n = 0 THEN <<>>
    ELSE IF n = 1 THEN <<p>>
    ELSE Alternating(p, sep, n - 1) \o <<sep, p>>

SequenceParts(p) ==
    CASE p[1] \in {"pair", "postfix"} -> <<p[2], p[3]>>
      [] p[1] = "prefix"              -> <<p[3], p[2]>>
      [] p[1] = "circumfix"           -> <<p[3], p[2], p[3]>>
      [] p[1] = "bracket"             -> <<p[3], p[2], p[4]>>
      [] p[1] \in {"intersperse", "intersperse_collect"} ->
            Alternating(p[4], p[5], p[2])
      [] OTHER -> <<>>

\* Some(context) of the failure the parts are to report on t: the tokens
\* of the parts that succeeded, followed by the context of the first part
\* that fails, when that is not the first part; None otherwise.
RECURSIVE ConsumedContext(_, _, _, _)
ConsumedContext(parts, i, t, consumed) ==
    IF i > Len(parts) THEN None
    ELSE LET r == Run(parts[i], Drop(t, consumed))
         IN  IF IsOk(r)
             THEN ConsumedContext(parts, i + 1, t, consumed + Len(r.token))
             ELSE IF IsErr(r) /\ i > 1
             THEN Some(Take(t, consumed + Len(r.context)))
             ELSE None

\* C19: when a sub-parser of pair, prefix, postfix, circumfix, bracket,
\* intersperse or intersperse_collect fails after earlier sub-parsers have
\* succeeded, the context of the returned failure is the prefix of the
\* input made of all tokens matched before, followed by the context of
\* the failing sub-parser.
C19_ContextSpansConsumed ==
    LET expected == ConsumedContext(SequenceParts(parser), 1, text, 0)
    IN  expected # None =>
            /\ IsErr(result)
            /\ result.context = expected[1]

\* C22: expect_failure turns every success into a failure and every
\* failure into a success; the success consumes nothing: its rest is the
\* input of the inverted parser, and its token followed by its rest is
\* that input, also when the failure had a context.
C22_PolarityInversion ==
    (parser[1] = "expect_failure") =>
        LET r == Run(parser[2], text)
        IN  /\ IsOk(r) => IsErr(result)
            /\ IsErr(r) =>
                    /\ IsOk(result)
                    /\ result.rest = text
                    /\ result.token \o result.rest = text

\* The repetitions of `p (sep p)*` at the start of t, n of them matched
\* over `consumed` characters so far: <<repetitions, characters>>, with a
\* further repetition only behind a separator and below the upper limit.
\* -1 repetitions stands for a run without end (empty matches, no limit).
RECURSIVE SeparatedRun(_, _, _, _, _, _)
SeparatedRun(p, sep, high, t, n, consumed) ==
    IF high # None /\ n >= high[1] THEN <<n, consumed>>
    ELSE LET s == Run(sep, Drop(t, consumed))
         IN  IF ~IsOk(s) THEN <<n, consumed>>
             ELSE LET q == Run(p, s.rest)
                      step == Len(s.token) + Len(q.token)
                  IN  IF ~IsOk(q) THEN <<n, consumed>>
                      ELSE IF step = 0 /\ high = None THEN <<-1, consumed>>
                      ELSE SeparatedRun(p, sep, high, t, n + 1,
                                        consumed + step)

\* The number of repetitions a result of intersperse(_collect) reports.
Repetition(r) ==
    IF parser[1] = "intersperse_collect" THEN Len(r.value) ELSE r.value

\* C23: in intersperse and intersperse_collect every repetition after the
\* first needs a separator directly followed by an item.  With at least
\* `low` repetitions a failing separator, or a failing item behind a
\* separator, ends the repetition with Ok: the token ends behind the last
\* item and the rest starts there, a trailing separator included.  With
\* fewer the parser fails.  (Upper limits of at least 1 and at least low.)
C23_SeparatorHandling ==
    ( /\ parser[1] \in {"intersperse", "intersperse_collect"}
      /\ parser[3] # None => (parser[3][1] >= 1 /\ parser[3][1] >= parser[2])
      /\ IsOk(Run(parser[4], text)) ) =>
        LET run == SeparatedRun(parser[4], parser[5], parser[3], text, 1,
                                Len(Run(parser[4], text).token))
        IN  run[1] # -1 =>
                IF run[1] >= parser[2]
                THEN /\ IsOk(result)
                     /\ Repetition(result) = run[1]
                     /\ result.token = Take(text, run[2])
                     /\ result.rest = Drop(text, run[2])
                ELSE IsErr(result)

\* A repetition has ended in front of a trailing separator.
C23_Witness ==
    /\ parser[1] \in {"intersperse", "intersperse_collect"}
    /\ parser[4] = <<"char", "a">>
    /\ parser[5] = <<"char", ",">>
    /\ text = <<"a", ",">>
    /\ IsOk(result)
    /\ Repetition(result) = 1
    /\ result.rest = <<",">>

\* The counting and the collecting form of a repetition parser.
CountingForm(p) ==
    [p EXCEPT ![1] = IF Len(p) = 4 THEN "repeat" ELSE "intersperse"]

CollectingForm(p) ==
    [p EXCEPT ![1] = IF Len(p) = 4 THEN "repeat_collect"
                     ELSE "intersperse_collect"]

\* The values of n successive repetitions of p in t, `lead` in front of
\* the first one and sep in front of every later one.
RECURSIVE RepetitionValues(_, _, _, _, _)
RepetitionValues(p, lead, sep, t, n) ==
    IF n = 0 THEN <<>>
    ELSE LET s == Run(lead, t)
             q == Run(p, s.rest)
         IN  <<q.value>> \o RepetitionValues(p, sep, sep, q.rest, n - 1)

\* C24: repeat and repeat_collect, and intersperse and
\* intersperse_collect, with the same arguments on the same text both
\* succeed or both fail; on success they have the same token and rest, the
\* count is the length of the collected sequence, and its elements are the
\* values of p in order.
C24_CountingMatchesCollecting ==
    parser[1] \in {"repeat", "repeat_collect",
                   "intersperse", "intersperse_collect"} =>
        LET counted == Run(CountingForm(parser), text)
            collected == Run(CollectingForm(parser), text)
            sep == IF Len(parser) = 4 THEN <<"null">> ELSE parser[5]
        IN  /\ result = IF parser[1] \in {"repeat", "intersperse"}
                         THEN counted ELSE collected
            /\ counted.kind = collected.kind
            /\ IsOk(counted) =>
                /\ counted.token = collected.token
                /\ counted.rest = collected.rest
                /\ counted.value = Len(collected.value)
                /\ collected.value =
                        RepetitionValues(parser[4], <<"null">>, sep, text,
                                         counted.value)

\* Both forms have matched two items of different values.
C24_Witness ==
    /\ parser[1] = "intersperse_collect"
    /\ IsOk(result)
    /\ Len(result.value) = 2
    /\ result.value[1] # result.value[2]
    /\ Run(CountingForm(parser), text).value = 2

\* C27: every Failure a parser or a result transform (source_for,
\* with_join_context, with_new_context, expect_end_of_text,
\* expect_failure) produces is well formed: its context is a prefix of its
\* rest, so that Failure::rest_continuing is defined.
C27_ContextPrefixOfRest ==
    IsErr(result) => starts_with(result.rest, result.context)

-----------------------------------------------------------------------------
(* Claims checked under SpecUint                                           *)

\* The sum of two numbers given by their limbs.
RECURSIVE BigAdd(_, _, _)
BigAdd(a, b, carry) ==
    IF a = <<>> /\ b = <<>>
    THEN IF carry = 0 THEN <<>> ELSE <<carry>>
    ELSE LET x == (IF a = <<>> THEN 0 ELSE a[1])
                  + (IF b = <<>> THEN 0 ELSE b[1]) + carry
         IN  <<x % LimbBase>>
             \o BigAdd(IF a = <<>> THEN a ELSE Tail(a),
                       IF b = <<>> THEN b ELSE Tail(b), x \div LimbBase)

\* The number a digit text denotes in a radix: the sum of its digits times
\* the powers of the radix, last digit first; weight is radix^(Len - k).
RECURSIVE WeightedSum(_, _, _, _)
WeightedSum(digits, radix, k, weight) ==
    IF k = 0 THEN <<>>
    ELSE LET d == to_digit(digits[k], radix)[1]
             term == IF d = 0 THEN <<>> ELSE MulAdd(weight, d, 0)
         IN  BigAdd(term,
                    WeightedSum(digits, radix, k - 1,
                                MulAdd(weight, radix, 0)), 0)

NotUnderscore(c) == c # "_"

\* The digit characters of a token, underscores left out.
DigitsOf(token) == SelectSeq(token, NotUnderscore)

Magnitude(token, radix) ==
    WeightedSum(DigitsOf(token), radix, Len(DigitsOf(token)), <<1>>)

\* The longest leading run of digits and underscores of a text.
RECURSIVE DigitRun(_, _)
DigitRun(t, radix) ==
    IF t # <<>> /\ (is_digit(Head(t), radix) \/ Head(t) = "_")
    THEN <<Head(t)>> \o DigitRun(Tail(t), radix)
    ELSE <<>>

\* The radix prefix a text starts with, if any, and the radix it selects.
PrefixOf(t) ==
    IF \E pre \in RadixPrefixes \ {<<>>} : starts_with(t, pre)
    THEN Take(t, 2) ELSE <<>>

RadixOfPrefix(pre) ==
    CASE pre = <<"0", "b">> -> 2
      [] pre = <<"0", "o">> -> 8
      [] pre = <<"0", "x">> -> 16
      [] OTHER              -> 10

\* The ParseIntegerOverflow a failure carries as its source, directly or
\* below the failure uint wraps around it.
IsOverflow(e) == e # None /\ e[1].error = "ParseIntegerOverflow"

OverflowOf(r) ==
    IF IsOverflow(r.source) THEN r.source
    ELSE IF r.source # None /\ IsOverflow(r.source[1].source)
    THEN r.source[1].source
    ELSE None

\* C7: uint::<T> never returns a wrapped or truncated value, and whenever
\* the number its digit text denotes exceeds T's maximum it returns a
\* Failure whose source is a ParseIntegerOverflow whose value is that
\* number, whether the narrowing into T or the 64-bit accumulator failed.
C7_OverflowReportsMagnitude ==
    parser[1] = "uint" =>
        LET pre == PrefixOf(text)
            radix == RadixOfPrefix(pre)
            run == DigitRun(Drop(text, Len(pre)), radix)
            mag == Magnitude(run, radix)
        IN  /\ IsOk(result) =>
                /\ result.value = mag
                /\ Len(mag) <= Limbs(parser[2])
            /\ (run # <<>> /\ Len(mag) > Limbs(parser[2])) =>
                /\ IsErr(result)
                /\ OverflowOf(result) # None
                /\ OverflowOf(result)[1].value = mag

\* C8: on a text made of an optional radix prefix (0b, 0o, 0x; none means
\* radix 10), then a digit of that radix starting a run of digits (with
\* underscore separators) whose value fits in T, uint::<T> succeeds with
\* that value, a token covering the prefix and the whole run, and the
\* remaining text as rest.
C8_UintValue ==
    parser[1] = "uint" =>
        LET pre == PrefixOf(text)
            radix == RadixOfPrefix(pre)
            body == Drop(text, Len(pre))
            run == DigitRun(body, radix)
            mag == Magnitude(run, radix)
        IN  (/\ body # <<>>
             /\ is_digit(Head(body), radix)
             /\ Len(mag) <= Limbs(parser[2])) =>
                /\ IsOk(result)
                /\ result.value = mag
                /\ result.token = pre \o run
                /\ result.rest = Drop(body, Len(run))

\* uint::<u16> has read a hexadecimal number of two digits or more behind
\* the prefix 0x.
C8_Witness ==
    /\ parser = <<"uint", "u16">>
    /\ starts_with(text, <<"0", "x">>)
    /\ IsOk(result)
    /\ Len(result.token) >= 4
    /\ ToInt(result.value) > 15

\* C9: uint_digits_value(label, low, high, radix), called with
\* 1 <= low <= high, succeeds only when the consumed text holds between low
\* and high digits of the radix, underscores not counted; a text made only
\* of underscores fails.
C9_UnderscoresNotCounted ==
    (/\ parser[1] = "uint_digits_value"
     /\ parser[3] >= 1
     /\ (parser[4] # None => parser[4][1] >= parser[3])) =>
        /\ IsOk(result) =>
            /\ Len(DigitsOf(result.token)) >= parser[3]
            /\ (parser[4] # None =>
                    Len(DigitsOf(result.token)) <= parser[4][1])
        /\ (text # <<>> /\ DigitsOf(text) = <<>>) => IsErr(result)

-----------------------------------------------------------------------------
(* Claims checked under SpecGrammar                                        *)

\* C4: color, cell_ref, cell_selector, cell_selection and the uint, float
\* and whitespace parsers they use return Ok or Err on every finite text:
\* none of their loops repeats for ever and none of them panics.
C4_GrammarTerminates ==
    parser # <<"none">> => result.kind \in {"ok", "err"}

\* cell_selection has gone round its loop for as many selectors as the
\* texts hold and has stopped at a trailing separator.
C4_Witness ==
    /\ parser = <<"cell_selection">>
    /\ IsOk(result)
    /\ Len(result.value) = MaxSelectors
    /\ result.rest = <<REF_SEP_TOKEN>>

\* The alternatives color attempts, in the order it attempts them.
ColorAlternatives(t) ==
    << rgb_hex(t), rgb_functional(t), cmyk_functional(t), hsv_functional(t),
       hsl_functional(t), xyz_functional(t) >>

\* The first of the failures alts whose context is the longest.
LongestFirst(alts) ==
    CHOOSE i \in DOMAIN alts :
        /\ \A j \in DOMAIN alts :
                Len(alts[j].context) <= Len(alts[i].context)
        /\ \A j \in 1..(i - 1) :
                Len(alts[j].context) < Len(alts[i].context)

\* C6: when color fails, its Failure has the context and the rest of, and
\* as source the failure of, the alternative whose failure context is the
\* longest among RGB hex, RGB functional, CMYK, HSV, HSL and XYZ, the one
\* attempted first among equals.
C6_LongestContextFailure ==
    (parser = <<"color">> /\ IsErr(result)) =>
        LET alts == ColorAlternatives(text)
            best == alts[LongestFirst(alts)]
        IN  /\ result.context = best.context
            /\ result.rest = best.rest
            /\ result.source = Some(Failure_to_owned(best))

\* A text that starts with # and three hexadecimal digits.
IsHex3(t) ==
    /\ Len(t) >= 4
    /\ t[1] = RGB_HEX_PREFIX
    /\ \A i \in 2..4 : is_digit(t[i], 16)

\* C10: on # followed by three hexadecimal digits R, G, B that the 6-digit
\* form does not accept, rgb_hex yields R*0x110000 + G*0x1100 + B*0x11 over
\* those four characters; and what the 6-digit form accepts is the result,
\* the 3-digit form coming second.
C10_ThreeDigitExpansion ==
    parser = <<"rgb_hex">> =>
        /\ IsOk(rgb_hex_6(text)) => result = rgb_hex_6(text)
        /\ (IsHex3(text) /\ ~IsOk(rgb_hex_6(text))) =>
            /\ IsOk(result)
            /\ result.value =
                    Rgb_from(to_digit(text[2], 16)[1] * 1114112
                             + to_digit(text[3], 16)[1] * 4352
                             + to_digit(text[4], 16)[1] * 17)
            /\ result.token = Take(text, 4)
            /\ result.rest = Drop(text, 4)

\* rgb_hex has expanded three digits that are not all the same, the
\* 6-digit form having failed on the text.
C10_Witness ==
    /\ parser = <<"rgb_hex">>
    /\ IsHex3(text)
    /\ text[2] # text[3]
    /\ ~IsOk(rgb_hex_6(text))
    /\ IsOk(result)

-----------------------------------------------------------------------------
(* SpecUntil: the repetitions with an end parser applied to lists of 'a'   *)
(* that a ';' may end                                                      *)

UntilChars == {"a", ",", ";"}

UntilItem == <<"char", "a">>

UntilSeparator == <<"char", ",">>

UntilEnd == <<"char", ";">>

RepeatUntils ==
    { <<"repeat_until", low, high, UntilItem, UntilEnd>> :
        low \in Lows, high \in Highs }

IntersperseUntils ==
    { <<c, low, high, UntilItem, UntilSeparator, UntilEnd>> :
        c \in {"intersperse_until", "intersperse_collect_until"},
        low \in Lows, high \in Highs }

InitUntil ==
    /\ text \in Texts(UntilChars, MaxLen)
    /\ parser = <<"none">>
    /\ result = NoResult
    /\ Idle

ApplyRepeatUntil ==
    /\ parser = <<"none">>
    /\ \E p \in RepeatUntils :
        /\ parser' = p
        /\ result' = Run(p, text)
    /\ UNCHANGED <<text, pc, suc, count, iters, dispatch_vars>>

ApplyIntersperseUntil ==
    /\ parser = <<"none">>
    /\ \E p \in IntersperseUntils :
        /\ parser' = p
        /\ result' = Run(p, text)
    /\ UNCHANGED <<text, pc, suc, count, iters, dispatch_vars>>

NextUntil ==
    \/ ApplyRepeatUntil
    \/ ApplyIntersperseUntil

SpecUntil == InitUntil /\ [][NextUntil]_vars

-----------------------------------------------------------------------------
(* Claims checked under SpecUntil                                          *)

\* The text of k items 'a' with the separator sep between them.
RECURSIVE Listed(_, _)
Listed(k, sep) ==
    IF k = 0 THEN <<>>
    ELSE IF k = 1 THEN <<"a">>
    ELSE Listed(k - 1, sep) \o sep \o <<"a">>

\* The separator text of an until parser: none for repeat_until.
UntilSep == IF parser[1] = "repeat_until" THEN <<>> ELSE <<",">>

\* The number of repetitions a result reports.
Repetitions(r) ==
    IF parser[1] = "intersperse_collect_until" THEN Len(r.value)
    ELSE r.value

\* C11: on a text that is k listed items followed by the end token, k not
\* above the upper limit, repeat_until, intersperse_until and
\* intersperse_collect_until succeed whatever the lower limit is, report k
\* repetitions, and leave the end token unconsumed: the token is the k
\* items and the rest starts with the end token.
C11_EndStopsRepetition ==
    \A k \in 0..MaxLen :
        ( /\ parser[1] \in {"repeat_until", "intersperse_until",
                            "intersperse_collect_until"}
          /\ (parser[3] = None \/ k <= parser[3][1])
          /\ starts_with(text, Listed(k, UntilSep) \o <<";">>) )
        => /\ IsOk(result)
           /\ Repetitions(result) = k
           /\ result.token = Listed(k, UntilSep)
           /\ result.rest = Drop(text, Len(Listed(k, UntilSep)))

\* C28: intersperse_until and intersperse_collect_until with the same
\* arguments on the same text both succeed or both fail; on success they
\* have the same token and rest and the count is the length of the
\* collected sequence.  Both take exactly one separator between two
\* consecutive repetitions: the token starts with the listed items.
C28_UntilCountingMatchesCollecting ==
    parser[1] \in {"intersperse_until", "intersperse_collect_until"} =>
        LET counted ==
                Run([parser EXCEPT ![1] = "intersperse_until"], text)
            collected ==
                Run([parser EXCEPT ![1] = "intersperse_collect_until"], text)
        IN  /\ result = IF parser[1] = "intersperse_until"
                         THEN counted ELSE collected
            /\ counted.kind = collected.kind
            /\ IsOk(counted) =>
                /\ counted.token = collected.token
                /\ counted.rest = collected.rest
                /\ counted.value = Len(collected.value)
                /\ starts_with(counted.token,
                               Listed(counted.value, <<",">>))

\* The length of the longest prefix of t without a reserved character.
RECURSIVE NameRun(_)
NameRun(t) ==
    IF t = <<>>
       \/ Head(t) \in {REF_ALL_TOKEN, REF_SEP_TOKEN, REF_POS_SEP_TOKEN,
                       REF_PREFIX_TOKEN, REF_RANGE_TOKEN}
    THEN 0
    ELSE 1 + NameRun(Tail(t))

\* C15: name consumes the longest run of characters that are none of the
\* five reserved ones, whitespace inside the run included; its value is
\* the run without its leading and trailing whitespace; it fails when the
\* run is empty.  (Runs of whitespace alone are left out.)
C15_NameRun ==
    (parser = <<"name">>) =>
        LET n == NameRun(text)
        IN  /\ n = 0 => IsErr(result)
            /\ (n > 0 /\ trim(Take(text, n)) # <<>>) =>
                    /\ IsOk(result)
                    /\ result.token = Take(text, n)
                    /\ result.value = trim(Take(text, n))
                    /\ result.rest = Drop(text, n)

\* The lower bound of a range of the given kind at the start of t, and the
\* range suffix behind it.
RangeLower(kind, t) == Run(<<kind>>, t)

RangeUpper(kind, t) == range_suffix(<<kind>>, RangeLower(kind, t).rest)

\* t starts with a range of the given kind that no earlier alternative of
\* cell_selector takes: both bounds parse, and group bounds name one group.
IsRange(kind, t) ==
    /\ IsOk(RangeLower(kind, t))
    /\ IsOk(RangeUpper(kind, t))
    /\ kind # "position" => ~IsOk(position(t)) /\ ~IsOk(position_selector(t))
    /\ kind = "group" =>
            /\ ~IsOk(index(t)) /\ ~IsOk(group_all(t))
            /\ RangeLower(kind, t).value[1] = RangeUpper(kind, t).value[1]

\* upper >= lower: numeric for indices, lexicographic for positions.
RangeOrdered(kind, low, high) ==
    CASE kind = "position" -> PositionLeq(low, high)
      [] kind = "index"    -> BigLeq(low, high)
      [] kind = "group"    -> BigLeq(low[2], high[2])

RangeSelectorName(kind) ==
    CASE kind = "position" -> "PositionRange"
      [] kind = "index"    -> "IndexRange"
      [] kind = "group"    -> "GroupRange"

SelectorAlternatives ==
    << <<<<"char", REF_ALL_TOKEN>>, "All", "">>,
       <<<<"position">>, "PositionSelector", "PositionRange">>,
       <<<<"position_selector">>, "PositionSelector", "">>,
       <<<<"index">>, "Index", "IndexRange">>,
       <<<<"group_all">>, "GroupAll", "">>,
       <<<<"group">>, "Group", "GroupRange">>,
       <<<<"name">>, "Name", "">> >>

\* The alternatives that start successfully on t.
Starting(t) ==
    {i \in DOMAIN SelectorAlternatives :
        IsOk(Run(SelectorAlternatives[i][1], t))}

\* The first of them.
FirstStarting(t) == CHOOSE i \in Starting(t) : \A j \in Starting(t) : i <= j

\* C17: cell_selector yields the first alternative, in the order All,
\* position, position_selector, index, group_all, group, name, that
\* starts successfully on the input, each tried from the start of the
\* input: alone its selector with its token and rest, with a range suffix
\* its range selector; it fails when none starts.  ':1.l.*' yields the
\* PositionSelector with page 1, line l and no column, and an ordered
\* position range yields its two positions.
C17_AlternativeOrder ==
    (parser = <<"cell_selector">>) =>
        IF Starting(text) = {} THEN IsErr(result)
        ELSE LET alt == SelectorAlternatives[FirstStarting(text)]
                 lead == Run(alt[1], text)
                 ranged == /\ alt[3] # ""
                           /\ IsOk(range_suffix(alt[1], lead.rest))
             IN  /\ ~ranged =>
                        /\ IsOk(result)
                        /\ result.value.selector = alt[2]
                        /\ result.token = lead.token
                        /\ result.rest = lead.rest
                 /\ (ranged /\ IsOk(result)) =>
                        /\ result.value.selector = alt[3]
                        /\ alt[3] = "PositionRange" =>
                                /\ result.value.low = lead.value
                                /\ result.value.high =
                                     range_suffix(alt[1], lead.rest).value
                 /\ \A l \in {"1", "2"} :
                        text = <<":", "1", ".", l, ".", "*">> =>
                            result.value =
                                [selector |-> "PositionSelector",
                                 page |-> Some(1),
                                 line |-> Some(IF l = "1" THEN 1 ELSE 2),
                                 column |-> None]
                 /\ text = <<":", "1", ".", "1", ".", "2", "-",
                             ":", "1", ".", "2", ".", "1">> =>
                        /\ result.value.low =
                                [page |-> 1, line |-> 1, column |-> 2]
                        /\ result.value.high =
                                [page |-> 1, line |-> 2, column |-> 1]

\* A position selector with a wildcard column was read after position had
\* failed on the same text.
C17_Witness ==
    /\ parser = <<"cell_selector">>
    /\ IsOk(result)
    /\ ~IsOk(position(text))
    /\ IsOk(position_selector(text))
    /\ result.value.selector = "PositionSelector"
    /\ result.value.column = None

\* The pieces of t between its separator characters.
RECURSIVE SplitList(_, _)
SplitList(t, piece) ==
    IF t = <<>> THEN <<piece>>
    ELSE IF Head(t) = REF_SEP_TOKEN
    THEN <<piece>> \o SplitList(Tail(t), <<>>)
    ELSE SplitList(Tail(t), Append(piece, Head(t)))

\* The selector texts of a list: its pieces without the whitespace around
\* the separators.
ListPieces(t) ==
    LET pieces == SplitList(t, <<>>)
    IN  [i \in DOMAIN pieces |->
            IF i = 1 /\ i = Len(pieces) THEN pieces[i]
            ELSE IF i = 1 THEN trim_end(pieces[i])
            ELSE IF i = Len(pieces) THEN trim_start(pieces[i])
            ELSE trim(pieces[i])]

\* A name of the grammar: no reserved character, no whitespace at its ends.
IsNameText(piece) ==
    piece # <<>> /\ NameRun(piece) = Len(piece) /\ trim(piece) = piece

\* A text that is one selector: a name, or a text cell_selector reads whole.
IsSelectorText(piece) ==
    \/ IsNameText(piece)
    \/ IsOk(cell_selector(piece)) /\ cell_selector(piece).rest = <<>>

SelectorOf(piece) ==
    IF IsNameText(piece) THEN [selector |-> "Name", name |-> piece]
    ELSE cell_selector(piece).value

ReverseSeq(s) == [i \in DOMAIN s |-> s[Len(s) + 1 - i]]

\* C18: on a list of k >= 1 selectors separated by ',' with optional
\* whitespace around it, cell_selection is Ok over the whole list with
\* the k selectors in the order of the input, duplicates kept; the list
\* in reverse order yields the selectors in reverse order.
C18_SelectionOrder ==
    (parser = <<"cell_selection">>
        /\ \A i \in DOMAIN ListPieces(text) :
                IsSelectorText(ListPieces(text)[i])) =>
        /\ IsOk(result)
        /\ result.token = text
        /\ result.rest = <<>>
        /\ result.value =
                [i \in DOMAIN ListPieces(text) |->
                    SelectorOf(ListPieces(text)[i])]
        /\ LET reversed ==
                    cell_selection(JoinTexts(ReverseSeq(ListPieces(text)),
                                             <<REF_SEP_TOKEN>>))
           IN  /\ IsOk(reversed)
               /\ reversed.value = ReverseSeq(result.value)

\* The parsers that end in source_for: the result source_for is applied
\* to, and the description it is given.
FramedResult(p, t) ==
    CASE p = <<"index">> ->
            prefix(<<"uint", "u32">>, <<"char", REF_PREFIX_TOKEN>>, t)
      [] p = <<"group_all">> ->
            postfix(<<"name">>,
                    <<"postfix", <<"char", REF_PREFIX_TOKEN>>,
                      <<"char", REF_ALL_TOKEN>>>>, t)
      [] p = <<"cell_selection">> ->
            intersperse_collect(
                1, None, <<"cell_selector">>,
                <<"circumfix", <<"char", REF_SEP_TOKEN>>,
                  <<"maybe", <<"whitespace">>>>>>, t)
      [] p = <<"whitespace">> ->
            tokenize_value(repeat(1, None, <<"char_whitespace">>, t))

FramedExpected(p) ==
    CASE p = <<"index">>          -> "cell ref index"
      [] p = <<"group_all">>      -> "cell ref group all"
      [] p = <<"cell_selection">> -> "cell selection"
      [] p = <<"whitespace">>     -> "whitespace"

\* The number of failures in a causal chain: a source that is no failure
\* (an integer overflow, a rejected range) ends it.
RECURSIVE ChainLength(_)
ChainLength(source) ==
    IF source = None THEN 0
    ELSE IF source[1].error = "FailureOwned"
    THEN 1 + ChainLength(source[1].source)
    ELSE 0

\* C20: source_for(expected) returns a success as it is; of a failure it
\* keeps the context and the rest, replaces expected by the description,
\* and sets the source to the owned copy of the failure, with its
\* context, expected and source, so that the causal chain grows by one.
C20_SourceForFrame ==
    (parser \in {<<"index">>, <<"group_all">>, <<"cell_selection">>,
                 <<"whitespace">>}) =>
        LET r == FramedResult(parser, text)
        IN  /\ IsOk(r) => result = r
            /\ IsErr(r) =>
                /\ IsErr(result)
                /\ result.context = r.context
                /\ result.rest = r.rest
                /\ result.expected = FramedExpected(parser)
                /\ result.source =
                        Some(FailureOwned(r.context, r.expected, r.source))
                /\ ChainLength(result.source) = ChainLength(r.source) + 1

\* source_for has framed a failure that had a cause of its own.
C20_Witness ==
    /\ parser = <<"index">>
    /\ IsErr(result)
    /\ result.expected = "cell ref index"
    /\ result.context # <<>>
    /\ ChainLength(result.source) >= 2

\* The pieces of t between the characters c.
RECURSIVE SplitAt(_, _, _)
SplitAt(t, c, piece) ==
    IF t = <<>> THEN <<piece>>
    ELSE IF Head(t) = c THEN <<piece>> \o SplitAt(Tail(t), c, <<>>)
    ELSE SplitAt(Tail(t), c, Append(piece, Head(t)))

\* The name and the number of components of a functional notation.
NotationName(p) ==
    CASE p = <<"rgb_functional">>  -> <<"r", "g", "b">>
      [] p = <<"hsv_functional">>  -> <<"h", "s", "v">>
      [] p = <<"hsl_functional">>  -> <<"h", "s", "l">>
      [] p = <<"xyz_functional">>  -> <<"x", "y", "z">>
      [] p = <<"cmyk_functional">> -> <<"c", "m", "y", "k">>

NotationArity(p) == IF p = <<"cmyk_functional">> THEN 4 ELSE 3

\* A text that is one float, whitespace around it allowed.
IsFloatText(piece) ==
    /\ IsOk(float("f32", trim(piece)))
    /\ float("f32", trim(piece)).rest = <<>>

\* The number of floats in the list of a text name '(' floats ')' ..., the
\* name compared without case; -1 for a text of another shape.
ListedFloats(fname, t) ==
    IF ~IsOk(literal_ignore_ascii_case(fname, t)) THEN -1
    ELSE LET body == Drop(t, Len(fname))
             parts == SplitAt(body, FUNCTIONAL_CLOSE_BRACKET, <<>>)
         IN  IF body = <<>> \/ Head(body) # FUNCTIONAL_OPEN_BRACKET
                \/ Len(parts) < 2
             THEN -1
             ELSE LET floats == SplitAt(Tail(parts[1]),
                                        FUNCTIONAL_SEPARATOR, <<>>)
                  IN  IF \A i \in DOMAIN floats : IsFloatText(floats[i])
                      THEN Len(floats)
                      ELSE -1

\* C21: a functional notation succeeds exactly on its name in any case,
\* '(', as many floats as the colour space has components (3, or 4 for
\* cmyk) separated by ',' with whitespace allowed around them, and ')';
\* a list of fewer or more floats fails.
C21_FunctionalArity ==
    (parser \in {<<"rgb_functional">>, <<"hsv_functional">>,
                 <<"hsl_functional">>, <<"xyz_functional">>,
                 <<"cmyk_functional">>}) =>
        /\ result.kind \in {"ok", "err"}
        /\ IsOk(result) <=>
                ListedFloats(NotationName(parser), text)
                    = NotationArity(parser)

\* cmyk_functional has failed on a list of three floats.
C21_Witness ==
    /\ parser = <<"cmyk_functional">>
    /\ ListedFloats(NotationName(parser), text) = 3
    /\ IsErr(result)

\* The length of the exponent [eE] Sign? Digit+ at the start of t, 0 when
\* t starts with no complete exponent.
ExponentLength(t) ==
    IF t = <<>> \/ Head(t) \notin {"e", "E"} THEN 0
    ELSE LET signed == Len(t) >= 2 /\ t[2] \in {"+", "-"}
             digits == LeadingDigits(Drop(t, IF signed THEN 2 ELSE 1))
         IN  IF digits = <<>> THEN 0
             ELSE Len(digits) + (IF signed THEN 2 ELSE 1)

\* The length of the mantissa Digit+ | Digit+ '.' Digit* | '.' Digit+ at
\* the start of t, 0 when t starts with none.
MantissaLength(t) ==
    LET int == LeadingDigits(t)
        after == Drop(t, Len(int))
        frac == IF after # <<>> /\ Head(after) = "."
                THEN LeadingDigits(Tail(after)) ELSE <<>>
    IN  CASE after # <<>> /\ Head(after) = "." /\ (int # <<>> \/ frac # <<>>)
                -> Len(int) + 1 + Len(frac)
          [] OTHER -> Len(int)

\* The length of the longest prefix of t of the float grammar
\* Sign? ( 'inf' | 'nan' | Mantissa Exponent? ), -1 when there is none.
FloatLength(t) ==
    LET signed == IF t # <<>> /\ Head(t) \in {"+", "-"} THEN 1 ELSE 0
        body == Drop(t, signed)
        mantissa == MantissaLength(body)
    IN  CASE starts_with(body, <<"i", "n", "f">>)
             \/ starts_with(body, <<"n", "a", "n">>) -> signed + 3
          [] mantissa = 0 -> -1
          [] OTHER -> signed + mantissa
                        + ExponentLength(Drop(body, mantissa))

\* C25: float succeeds exactly on the texts with a prefix of the grammar
\* Sign? ( 'inf' | 'nan' | Mantissa Exponent? ), and its token is the
\* longest such prefix: the exponent is optional, so a mantissa followed
\* by an incomplete exponent is accepted as the mantissa alone, and a
\* mantissa without a digit fails.
C25_FloatGrammar ==
    parser[1] = "float" =>
        IF FloatLength(text) = -1 THEN IsErr(result)
        ELSE /\ IsOk(result)
             /\ result.token = Take(text, FloatLength(text))
             /\ result.rest = Drop(text, FloatLength(text))

\* The value of a run of decimal digits.
RECURSIVE DecimalValue(_)
DecimalValue(d) ==
    IF d = <<>> THEN 0
    ELSE 10 * DecimalValue(Take(d, Len(d) - 1))
            + to_digit(d[Len(d)], 10)[1]

\* A text of the shape ':P.L.C', three runs of decimal digits, of which
\* one is a number beyond u16.
IsOverflowingPosition(t) ==
    /\ t # <<>>
    /\ Head(t) = REF_PREFIX_TOKEN
    /\ LET fields == SplitAt(Tail(t), REF_POS_SEP_TOKEN, <<>>)
       IN  /\ Len(fields) = 3
           /\ \A i \in 1..3 :
                /\ fields[i] # <<>>
                /\ LeadingDigits(fields[i]) = fields[i]
           /\ \E i \in 1..3 : DecimalValue(fields[i]) > 65535

\* A causal chain that ends in, or holds, a ParseIntegerOverflow.
RECURSIVE CausedByOverflow(_)
CausedByOverflow(source) ==
    /\ source # None
    /\ IF source[1].error = "FailureOwned"
       THEN CausedByOverflow(source[1].source)
       ELSE source[1].error = "ParseIntegerOverflow"

\* C26: on a text of the shape ':P.L.C' with a field beyond u16,
\* cell_selector and cell_ref return Err with a ParseIntegerOverflow in the
\* causal chain, not Ok with a selector or reference of another kind.
C26_OverflowNotSwallowed ==
    ( /\ parser[1] \in {"cell_selector", "cell_ref"}
      /\ IsOverflowingPosition(text) ) =>
        /\ IsErr(result)
        /\ CausedByOverflow(result.source)

-----------------------------------------------------------------------------
(* SpecString: escaped_string with small bracket and escape tables applied *)
(* to every short text over brackets, quotes, backslashes and a letter     *)

StringChars == {"(", ")", "'", "\\", "a"}

BracketTables ==
    { << <<<<"'">>, <<"'">>>> >>,
      << <<<<"(">>, <<")">>>> >>,
      << <<<<"'">>, <<"'">>>>, <<<<"(">>, <<")">>>> >> }

EscapeTables ==
    { <<>>,
      << <<<<"\\", "'">>, <<"'">>>> >>,
      << <<<<"\\", "\\">>, <<"\\">>>>, <<<<"\\", ")">>, <<")">>>> >> }

InitString ==
    /\ text \in Texts(StringChars, MaxLen)
    /\ parser = <<"none">>
    /\ result = NoResult
    /\ Idle

ApplyEscapedString ==
    /\ parser = <<"none">>
    /\ \E brackets \in BracketTables, escapes \in EscapeTables :
        /\ parser' = <<"escaped_string", brackets, escapes>>
        /\ result' = Run(<<"escaped_string", brackets, escapes>>, text)
    /\ UNCHANGED <<text, pc, suc, count, iters, dispatch_vars>>

NextString == ApplyEscapedString

SpecString == InitString /\ [][NextString]_vars

\* The text starts with the opening bracket of an entry of the table.
Opens(brackets, t) ==
    \E i \in DOMAIN brackets : starts_with(t, brackets[i][1])

\* The token t runs from an opening bracket through its closing bracket.
Bracketed(brackets, t) ==
    \E i \in DOMAIN brackets :
        /\ Len(t) >= Len(brackets[i][1]) + Len(brackets[i][2])
        /\ starts_with(t, brackets[i][1])
        /\ Drop(t, Len(t) - Len(brackets[i][2])) = brackets[i][2]

\* C29: escaped_string ends on every text, whatever the bracket and escape
\* tables are, an empty escape table and a string without closing bracket
\* included.  When no opening bracket matches it fails with an empty
\* context and the text as rest; when it succeeds its token runs from the
\* opening bracket through the closing one and token followed by rest is
\* the text.
C29_EscapedStringEnds ==
    parser[1] = "escaped_string" =>
        /\ result.kind # "diverge"
        /\ ~Opens(parser[2], text) =>
                /\ IsErr(result)
                /\ result.context = <<>>
                /\ result.rest = text
        /\ IsOk(result) =>
                /\ Bracketed(parser[2], result.token)
                /\ result.token \o result.rest = text

-----------------------------------------------------------------------------
(* command/dispatch.rs: the Undo and Redo commands.  The palette is an     *)
(* external service: what pal.undo(count) / pal.redo(count) report and     *)
(* whether pal.write_to_load_path() succeeds are inputs of a call.         *)

NO_PALETTE == "No active palette loaded."

\* Option::unwrap_or
unwrap_or(option, default) == IF option = None THEN default ELSE option[1]

\* The Result<(), anyhow::Error> of dispatch.
DispatchOk == [kind |-> "ok"]

DispatchErr(message) == [kind |-> "err", error |-> message]

\* dispatch with the test of the reported operations left out: the
\* palette is written after every undo or redo with a count above 0.
dispatch_unperformed_written(pal, opts, reported, write) ==
    CASE pal = None ->
            [result |-> DispatchErr(NO_PALETTE), performed |-> 0, writes |-> 0]
      [] unwrap_or(opts[2], 1) = 0 ->
            [result |-> DispatchOk, performed |-> 0, writes |-> 0]
      [] OTHER ->
            [result |-> IF write = "ok" THEN DispatchOk
                        ELSE DispatchErr("Failed to write palette"),
             performed |-> reported, writes |-> 1]

\* dispatch for opts.command = Undo { count } or Redo { count }, opts being
\* <<"Undo", count>> or <<"Redo", count>>: the result, the local
\* `performed` and the number of calls of pal.write_to_load_path.
dispatch(pal, opts, reported, write) ==
    CASE pal = None ->
            [result |-> DispatchErr(NO_PALETTE), performed |-> 0, writes |-> 0]
      [] unwrap_or(opts[2], 1) = 0 ->
            [result |-> DispatchOk, performed |-> 0, writes |-> 0]
      [] reported = 0 ->
            [result |-> DispatchOk, performed |-> 0, writes |-> 0]
      [] OTHER ->
            [result |-> IF write = "ok" THEN DispatchOk
                        ELSE DispatchErr("Failed to write palette"),
             performed |-> reported, writes |-> 1]

-----------------------------------------------------------------------------
(* SpecDispatch: the program run again and again with an Undo or a Redo    *)
(* command, with or without a loaded palette                               *)

\* The largest count of a command.
MaxCount == 3

\* The calls of write_to_load_path that are followed.
MaxWrites == 3

Counts == {None} \cup {Some(n) : n \in 0..MaxCount}

Palettes == {None, Some([load_path |-> "atma.palette"])}

InitDispatch ==
    /\ text = <<>>
    /\ parser = <<"none">>
    /\ result = NoResult
    /\ pc = "idle"
    /\ suc = NoResult
    /\ count = 0
    /\ iters = 0
    /\ palette \in Palettes
    /\ command = <<"none">>
    /\ performed = 0
    /\ written = 0

\* One call of dispatch with an Undo command; the palette reports at most
\* `count` operations.
DispatchUndo ==
    /\ written < MaxWrites
    /\ \E c \in Counts, write \in {"ok", "err"} :
        \E reported \in 0..unwrap_or(c, 1) :
            \E done \in {dispatch(palette, <<"Undo", c>>, reported, write)} :
                /\ command' = <<"Undo", c>>
                /\ result' = done.result
                /\ performed' = done.performed
                /\ written' = written + done.writes
    /\ UNCHANGED <<text, parser, pc, suc, count, iters, palette>>

\* One call of dispatch with a Redo command.
DispatchRedo ==
    /\ written < MaxWrites
    /\ \E c \in Counts, write \in {"ok", "err"} :
        \E reported \in 0..unwrap_or(c, 1) :
            \E done \in {dispatch(palette, <<"Redo", c>>, reported, write)} :
                /\ command' = <<"Redo", c>>
                /\ result' = done.result
                /\ performed' = done.performed
                /\ written' = written + done.writes
    /\ UNCHANGED <<text, parser, pc, suc, count, iters, palette>>

NextDispatch == DispatchUndo \/ DispatchRedo

SpecDispatch == InitDispatch /\ [][NextDispatch]_vars

\* What a call of dispatch must have done, `wrote` being the number of
\* writes of the palette during the call.
UndoRedoOutcome(pal, opts, reported, res, wrote) ==
    /\ wrote \in {0, 1}
    /\ wrote = 1 <=>
            (pal # None /\ unwrap_or(opts[2], 1) # 0 /\ reported >= 1)
    /\ (pal # None /\ (unwrap_or(opts[2], 1) = 0 \/ reported = 0)) =>
            res = DispatchOk
    /\ pal = None => res = DispatchErr("No active palette loaded.")

\* C30: an Undo or Redo command writes the palette to its load path
\* exactly when a palette is loaded, the count (1 when none is given) is
\* not 0 and the palette reports at least one operation performed.  With
\* a count of 0 or no operation performed it returns Ok without writing;
\* without a palette it returns the error 'No active palette loaded.'
\* without writing.
C30_UndoRedoWrites ==
    [][UndoRedoOutcome(palette, command', performed', result',
                       written' - written)]_vars

\* An undo of two operations has been written.
C30_Witness ==
    /\ command[1] = "Undo"
    /\ palette # None
    /\ performed = 2
    /\ written >= 1
    /\ result = DispatchOk

=============================================================================
